---- MODULE Spec2Model ----
(***************************************************************************)
(* RTK rover firmware (ESP32 + u-blox ZED-X20P): a model of                *)
(*   - the UBX frame decoder  zed_rover_get_position  (src/src/zed_rover.c) *)
(*   - the NTRIP correction client                 (src/src/ntrip_client.c) *)
(*   - the Wi-Fi manager            (wifi.c, in src/unnamed/part_001)       *)
(*   - app_main and rover_task      (main.c, in src/unnamed/part_001)       *)
(* Bytes are the integers 0..255.  The accumulator ubx_buffer is modelled   *)
(* as the sequence of its first ubx_buffer_len bytes (index k of the C     *)
(* array is element k+1 of the sequence).                                   *)
(***************************************************************************)
EXTENDS Integers, Sequences, FiniteSets, TLC

\* ------------------------------------------------------------------------
\* Program constants of the decoder
\* ------------------------------------------------------------------------
UBX_SYNC1 == 181
UBX_SYNC2 == 98
UBX_CLASS_NAV == 1
UBX_NAV_PVT == 7
NAV_PVT_LEN == 92
UBX_BUFFER_SIZE == 256
TEMP_BUF_SIZE == 256
UBX_CLEAR_THRESHOLD == 200

\* ------------------------------------------------------------------------
\* Bounds of the model
\* ------------------------------------------------------------------------
\* largest number of bytes of the small "trickle" reads (1..MaxTrickle)
MaxTrickle == 2
\* the search loop is run for at most 2^LogMaxIter iterations
LogMaxIter == 11
\* number of non-frame bytes that follow a marker with a corrupted length
NoiseLen == 12

VARIABLES
    ubx_buffer,     \* the accumulator: its first ubx_buffer_len bytes
    stream,         \* index of the byte stream the receiver emits (environment)
    sent,           \* number of stream bytes already handed out by the bus
    bus,            \* the stream bytes not yet handed out
    ret,            \* result of the last zed_rover_get_position call
    pos,            \* *pos after the last call
    fixes,          \* history: the fixes returned so far, oldest first
    scan,           \* what the last call's scan did (observation of the loop)
    zres,           \* the last call of zed_rover_available or zed_rover_read
    s_sock,         \* ntrip_client.c: the socket descriptor, -1 when there is none
    s_connected,    \* ntrip_client.c: the session is streaming
    s_bytes_received,   \* ntrip_client.c: running count of correction bytes
    sock_read,      \* history: correction bytes the recv calls took off the socket
    s_last_data_time,   \* ntrip_client.c: tick count of the last activity
    ntrip_pc,       \* where the client's caller is: "idle", or "handshake" inside connect
    open_fds,       \* the descriptors that are open (environment: the socket layer)
    now,            \* xTaskGetTickCount()
    nres,           \* the last completed client operation and its result
    b64_input,      \* base64_encode: the string to encode (byte values)
    b64_output,     \* base64_encode: the output string, or <<"unset">>
    s_retry_num,    \* wifi.c: consecutive reconnects since the last connection
    wifi_connected, \* wifi.c: its s_connected (the client has one of its own)
    s_current_network_idx,  \* wifi.c: index of the selected profile, -1 at start
    s_connected_ssid,       \* wifi.c: the string wifi_get_ssid() returns
    event_bits,     \* wifi.c: the bits set in s_wifi_event_group
    mgr_pc,         \* where wifi_manager_task is
    sta,            \* the radio driver: "idle", "connecting", "associated", "dropping"
    sta_config,     \* the configuration given to esp_wifi_set_config
    ap_records,     \* what a scan reports: the networks in range (environment)
    rssi_threshold, \* WIFI_RSSI_THRESHOLD of the build (config.h)
    best_idx,       \* result of the last find_best_network call
    wres,           \* the last step of the Wi-Fi code and what it found
    rv_pc,          \* main.c: where app_main / rover_task is
    wifi_ok,        \* rover_task: its local wifi_ok
    ntrip_ok,       \* rover_task: its local ntrip_ok
    rv_now,         \* rover_task: the local now of the connect block while it is used
    last_ntrip_attempt,     \* rover_task: local
    last_position_report,   \* rover_task: local
    last_led_time,          \* rover_task: local
    last_carr_soln,         \* rover_task: local
    rtcm_bytes_received,    \* main.c: statistics
    rtcm_bytes_sent,
    position_count,
    fixed_count,
    float_count,
    led,            \* the colour and mode last given to the LED
    tick_log,       \* history: the steps the current iteration of the loop has run
    conn            \* history: the last entry of ntrip_client_connect

decVars == <<ubx_buffer, stream, sent, bus, ret, pos, fixes, scan, zres>>
ntripVars == <<s_sock, s_connected, s_bytes_received, sock_read, s_last_data_time, ntrip_pc,
               open_fds, now, nres>>
b64Vars == <<b64_input, b64_output>>
wifiVars == <<s_retry_num, wifi_connected, s_current_network_idx, s_connected_ssid,
              event_bits, mgr_pc, sta, sta_config, ap_records, rssi_threshold,
              best_idx, wres>>
roverVars == <<rv_pc, wifi_ok, ntrip_ok, rv_now, last_ntrip_attempt, last_position_report,
               last_led_time, last_carr_soln, rtcm_bytes_received, rtcm_bytes_sent,
               position_count, fixed_count, float_count, led, tick_log, conn>>
vars == <<decVars, ntripVars, b64Vars, wifiVars, roverVars>>

ubx_buffer_len == Len(ubx_buffer)

\* ------------------------------------------------------------------------
\* ubx_checksum: 8-bit running sums over n bytes of buf starting at C index
\* start.  Rd is the array read; a read at or beyond the sequence's end is
\* outside the accumulated bytes and yields an unspecified byte (0 here; the
\* scan records every such read in "oob").
\* ------------------------------------------------------------------------
Rd(buf, k) == IF k >= 0 /\ k < Len(buf) THEN buf[k + 1] ELSE 0

\* one iteration of the loop body: *ck_a += data[i]; *ck_b += *ck_a;
CkStep(ck, byte) == <<(ck[1] + byte) % 256, (ck[2] + ((ck[1] + byte) % 256)) % 256>>

\* the iterations lo .. hi-1 of the loop, in order, from the sums ck.  The
\* range is halved, and the sums after the first half are computed (they are
\* a pair of uint8_t) before the second half is run, so that the evaluation
\* stays shallow.
RECURSIVE CkLoop(_, _, _, _, _)
CkLoop(buf, start, lo, hi, ck) ==
    IF hi <= lo THEN ck
    ELSE IF hi = lo + 1 THEN CkStep(ck, Rd(buf, start + lo))
    ELSE LET mid == (lo + hi) \div 2
             half == CkLoop(buf, start, lo, mid, ck)
         IN IF half[1] \in 0..255 /\ half[2] \in 0..255
            THEN CkLoop(buf, start, mid, hi, half)
            ELSE half

ubx_checksum(buf, start, len) == CkLoop(buf, start, 0, len, <<0, 0>>)

\* ------------------------------------------------------------------------
\* The position structure.  ZeroPos is the structure after memset; Decode is
\* the NAV-PVT payload parse, p = &ubx_buffer[i + 6].  The scaled floating
\* point members are kept as their raw integers (longitude = lon_raw * 1e-7,
\* altitude_msl = alt_raw / 1000.0, ...).
\* ------------------------------------------------------------------------
ZeroPos == [year |-> 0, month |-> 0, day |-> 0, hour |-> 0, min |-> 0, sec |-> 0,
            fix_type |-> 0, carr_soln |-> 0, num_sv |-> 0,
            lon_raw |-> 0, lat_raw |-> 0, alt_raw |-> 0,
            h_acc_raw |-> <<0, 0>>, v_acc_raw |-> <<0, 0>>, valid |-> FALSE]

\* variant of the signed integer: the bytes taken in big-endian order
I32BigEndian(buf, k) ==
    Rd(buf, k + 3) + 256 * Rd(buf, k + 2) + 65536 * Rd(buf, k + 1)
    + 16777216 * (IF Rd(buf, k) >= 128 THEN Rd(buf, k) - 256 ELSE Rd(buf, k))

\* A little-endian signed 32-bit integer (the result of the int32_t
\* assignment), and an unsigned one as its two 16-bit halves <<low, high>>
\* (the checker's integers are 32-bit signed).
I32(buf, k) ==
    Rd(buf, k) + 256 * Rd(buf, k + 1) + 65536 * Rd(buf, k + 2)
    + 16777216 * (IF Rd(buf, k + 3) >= 128 THEN Rd(buf, k + 3) - 256 ELSE Rd(buf, k + 3))

U32(buf, k) == <<Rd(buf, k) + 256 * Rd(buf, k + 1), Rd(buf, k + 2) + 256 * Rd(buf, k + 3)>>

\* variant of the decoding: valid does not look at the fix type
DecodeFlagOnly(buf, i) ==
    [year |-> Rd(buf, i + 10) + 256 * Rd(buf, i + 11),
     month |-> Rd(buf, i + 12), day |-> Rd(buf, i + 13), hour |-> Rd(buf, i + 14),
     min |-> Rd(buf, i + 15), sec |-> Rd(buf, i + 16), fix_type |-> Rd(buf, i + 26),
     carr_soln |-> (Rd(buf, i + 27) \div 64) % 4, num_sv |-> Rd(buf, i + 29),
     lon_raw |-> I32(buf, i + 30), lat_raw |-> I32(buf, i + 34),
     alt_raw |-> I32(buf, i + 42), h_acc_raw |-> U32(buf, i + 46),
     v_acc_raw |-> U32(buf, i + 50), valid |-> Rd(buf, i + 17) % 2 = 1]

Decode(buf, i) ==
    LET p == i + 6
        valid_flags == Rd(buf, p + 11)
        flags == Rd(buf, p + 21)
    IN [year |-> Rd(buf, p + 4) + 256 * Rd(buf, p + 5),
        month |-> Rd(buf, p + 6),
        day |-> Rd(buf, p + 7),
        hour |-> Rd(buf, p + 8),
        min |-> Rd(buf, p + 9),
        sec |-> Rd(buf, p + 10),
        fix_type |-> Rd(buf, p + 20),
        carr_soln |-> (flags \div 64) % 4,
        num_sv |-> Rd(buf, p + 23),
        lon_raw |-> I32(buf, p + 24),
        lat_raw |-> I32(buf, p + 28),
        alt_raw |-> I32(buf, p + 36),
        h_acc_raw |-> U32(buf, p + 40),
        v_acc_raw |-> U32(buf, p + 44),
        valid |-> (valid_flags % 2 = 1) /\ (Rd(buf, p + 20) >= 2)]

\* ------------------------------------------------------------------------
\* The append of zed_rover_get_position: copy_len = min(read_len, free space)
\* ------------------------------------------------------------------------
\* variant of the append: the whole read is copied
CopyLenUnclamped(buf, read_len) == read_len

CopyLen(buf, read_len) ==
    IF read_len < UBX_BUFFER_SIZE - Len(buf) THEN read_len
    ELSE UBX_BUFFER_SIZE - Len(buf)

Append256(buf, temp_buf) ==
    buf \o SubSeq(temp_buf, 1, CopyLen(buf, Len(temp_buf)))

\* memmove(ubx_buffer, &ubx_buffer[from], remaining); ubx_buffer_len = remaining
Remove(buf, from) == SubSeq(buf, from + 1, Len(buf))

\* variant of the completeness test: the two checksum bytes are not counted
IncompleteWithoutChecksum(buf, i, msg_total_len) == i + msg_total_len - 2 > Len(buf)

\* if (i + msg_total_len > ubx_buffer_len) break;
Incomplete(buf, i, msg_total_len) == i + msg_total_len > Len(buf)

\* variant of the checksum comparison: only ck_a is compared
ChecksumBadOnlyA(buf, i, payload_len) ==
    ubx_checksum(buf, i + 2, 4 + payload_len)[1] # Rd(buf, i + 6 + payload_len)

\* the checksum comparison of the scan
ChecksumBad(buf, i, payload_len) ==
    \E ck \in {ubx_checksum(buf, i + 2, 4 + payload_len)} :
        ck[1] # Rd(buf, i + 6 + payload_len) \/ ck[2] # Rd(buf, i + 7 + payload_len)

IsNavPvt(msg_class, msg_id, payload_len) ==
    msg_class = UBX_CLASS_NAV /\ msg_id = UBX_NAV_PVT /\ payload_len = NAV_PVT_LEN

\* where the scan goes after a checksum mismatch: "continue", i.e. i + 1
AfterBadChecksum(i) == i + 1

\* ------------------------------------------------------------------------
\* The search loop, for (i = 0; i < ubx_buffer_len - 8; i++).  The result
\* holds the return value, the structure, the accumulator, and tr, a record
\* of what the loop did: oob (a read at an index >= ubx_buffer_len),
\* incompleteAt (the index of the marker the loop stopped at, or -1), bad
\* (the checksum mismatches met), skipped (the frames consumed and dropped),
\* fixAt (index of the frame returned, in the accumulator as it then was).
\* ------------------------------------------------------------------------
NoTrace == [oob |-> FALSE, incompleteAt |-> -1, bad |-> 0, skipped |-> 0, fixAt |-> -1]

\* one iteration of the loop, on the loop state st: done (the loop was left),
\* found, pos, buf, i, tr
ScanStep(st) ==
    LET buf == st.buf
        i == st.i
        tr == st.tr
    IN
    IF ~(i < Len(buf) - 8)
    THEN [st EXCEPT !.done = TRUE]
    ELSE IF Rd(buf, i) = UBX_SYNC1 /\ Rd(buf, i + 1) = UBX_SYNC2
    THEN LET msg_class == Rd(buf, i + 2)
             msg_id == Rd(buf, i + 3)
             payload_len == Rd(buf, i + 4) + 256 * Rd(buf, i + 5)
             msg_total_len == 6 + payload_len + 2
             hdr == [tr EXCEPT !.oob = @ \/ (i + 5 >= Len(buf))]
         IN IF Incomplete(buf, i, msg_total_len)
            THEN [st EXCEPT !.done = TRUE, !.tr = [hdr EXCEPT !.incompleteAt = i]]
            ELSE LET tr1 == [hdr EXCEPT !.oob = @ \/ (i + 7 + payload_len >= Len(buf))]
                 IN IF ChecksumBad(buf, i, payload_len)
                    THEN [st EXCEPT !.i = AfterBadChecksum(i),
                                    !.tr = [tr1 EXCEPT !.bad = @ + 1]]
                    ELSE IF IsNavPvt(msg_class, msg_id, payload_len)
                    THEN [st EXCEPT !.done = TRUE, !.found = TRUE,
                                    !.pos = Decode(buf, i),
                                    !.buf = Remove(buf, i + msg_total_len),
                                    !.tr = [tr1 EXCEPT !.fixAt = i]]
                    ELSE [st EXCEPT !.buf = Remove(buf, i + msg_total_len),
                                    !.i = 0,
                                    !.tr = [tr1 EXCEPT !.skipped = @ + 1]]
    ELSE [st EXCEPT !.i = i + 1]

\* up to 2^k iterations from st, stopping when the loop is left
RECURSIVE ScanRun(_, _)
ScanRun(st, k) ==
    IF st.done THEN st
    ELSE IF k = 0 THEN ScanStep(st)
    ELSE ScanRun(ScanRun(st, k - 1), k - 1)

\* the whole loop: it makes fewer than 2^LogMaxIter iterations (each one
\* advances i or shortens the accumulator by at least 8 bytes)
ScanLoop(buf) ==
    ScanRun([done |-> FALSE, found |-> FALSE, pos |-> ZeroPos, buf |-> buf,
             i |-> 0, tr |-> NoTrace], LogMaxIter)

\* variant of the threshold test: >= instead of >
ClearIfFullInclusive(buf) == IF Len(buf) >= UBX_CLEAR_THRESHOLD THEN <<>> ELSE buf

\* if (ubx_buffer_len > 200) ubx_buffer_len = 0;   (reached when no fix is returned)
ClearIfFull(buf) == IF Len(buf) > UBX_CLEAR_THRESHOLD THEN <<>> ELSE buf

\* zed_rover_get_position from the append on, for a read of temp_buf
GetPosition(buf, temp_buf) ==
    LET r == ScanLoop(Append256(buf, temp_buf))
    IN [found |-> r.found, pos |-> r.pos, tr |-> r.tr, scanned |-> r.buf, left |-> r.done,
        buf |-> IF r.found THEN r.buf ELSE ClearIfFull(r.buf)]

\* ------------------------------------------------------------------------
\* The environment of the decoder: the byte stream the receiver emits.
\* Frame builds a well-formed frame; Payload(tag) is a 92-byte NAV-PVT
\* payload whose seconds field carries tag (time valid, 3D fix).
\* ------------------------------------------------------------------------
Frame(cls, id, payload) ==
    LET body == <<cls, id, Len(payload) % 256, Len(payload) \div 256>> \o payload
        ck == ubx_checksum(body, 0, Len(body))
    IN <<UBX_SYNC1, UBX_SYNC2>> \o body \o <<ck[1], ck[2]>>

Payload(tag) ==
    [k \in 1..NAV_PVT_LEN |->
        IF k = 11 THEN tag            \* offset 10: sec
        ELSE IF k = 12 THEN 1         \* offset 11: validity flags
        ELSE IF k = 21 THEN 3         \* offset 20: fixType
        ELSE IF k = 22 THEN 128       \* offset 21: flags, carrSoln = 2
        ELSE IF k = 32 THEN 27        \* offset 31: top byte of lat
        ELSE 0]

Fix(tag) == Frame(UBX_CLASS_NAV, UBX_NAV_PVT, Payload(tag))

\* a NAV-PVT frame with the given validity flags, fixType and flags bytes
Flagged(tag, valid_flags, fix_type, flags) ==
    Frame(UBX_CLASS_NAV, UBX_NAV_PVT,
          [Payload(tag) EXCEPT ![12] = valid_flags, ![21] = fix_type, ![22] = flags])

\* a NAV-PVT frame of 5 November 2026, 23:59, west of Greenwich and below
\* sea level: lon -122.4000000 deg, lat 45.6471947 deg (raw 456471947),
\* hMSL -12345 mm, hAcc with the top bit set, vAcc 14 mm, carrSoln 2 among
\* other flag bits, 31 satellites
Dated(tag) ==
    Frame(UBX_CLASS_NAV, UBX_NAV_PVT,
          [Payload(tag) EXCEPT ![5] = 234, ![6] = 7, ![7] = 11, ![8] = 5, ![9] = 23, ![10] = 59,
                               ![22] = 131, ![24] = 31,
                               ![25] = 0, ![26] = 62, ![27] = 11, ![28] = 183,
                               ![29] = 139, ![30] = 53, ![31] = 53, ![32] = 27,
                               ![37] = 199, ![38] = 207, ![39] = 255, ![40] = 255,
                               ![41] = 1, ![44] = 128, ![45] = 14])

\* a NAV-PVT frame whose payload bytes are all 255, the seconds excepted
AllOnes(tag) ==
    Frame(UBX_CLASS_NAV, UBX_NAV_PVT, [k \in 1..NAV_PVT_LEN |-> IF k = 11 THEN tag ELSE 255])

Zeros(n) == [k \in 1..n |-> 0]
Noise(n) == [k \in 1..n |-> 36]

\* a frame with one of its two checksum bytes (which = 1: ck_a, 2: ck_b) changed
FlipCk(frame, which, delta) ==
    [frame EXCEPT ![Len(frame) - 2 + which] = (@ + delta) % 256]

AckAck == Frame(5, 1, <<1, 7>>)             \* 10 bytes, not the target
Empty == Frame(5, 0, <<>>)                  \* 8 bytes, no payload
ShortPvt == Frame(UBX_CLASS_NAV, UBX_NAV_PVT, Zeros(4))   \* target ids, wrong length
BigFrame == Frame(2, 21, Zeros(200))        \* 208 bytes, not the target
BadLen == <<UBX_SYNC1, UBX_SYNC2, UBX_CLASS_NAV, UBX_NAV_PVT, 255, 255>>

\* length fields (low byte, high byte) written after a marker by noise
LenFields == <<<<0, 0>>, <<1, 0>>, <<92, 0>>, <<247, 0>>, <<249, 0>>, <<0, 1>>, <<255, 255>>>>

MarkerWithLen(lf) == <<UBX_SYNC1, UBX_SYNC2, UBX_CLASS_NAV, UBX_NAV_PVT, lf[1], lf[2]>>

FrameStreams == <<
    Fix(1) \o Fix(2) \o Fix(3),                       \* 1: target frames only
    AckAck \o Fix(1) \o Empty \o ShortPvt \o Fix(2),  \* 2: valid frames of several kinds
    FlipCk(Fix(1), 1, 1) \o Fix(2),                   \* 3: ck_a of the first frame changed
    FlipCk(Fix(1), 2, 255) \o Fix(2),                 \* 4: ck_b of the first frame changed
    Noise(205),                                       \* 5: 205 bytes, no frame
    BadLen \o Noise(10) \o Fix(1),                    \* 6: marker with a corrupted length
    AckAck \o Noise(205),                             \* 7: a frame, then bytes that are none
    BigFrame \o Fix(1),                               \* 8: a valid frame of 208 bytes
    Flagged(4, 254, 3, 64) \o Flagged(5, 1, 1, 0) \o Flagged(6, 3, 2, 64),
                                                      \* 9: fixes of several validities
    Dated(7) \o AllOnes(8)                            \* 10: fixes with every field set
>>

\* 11..: a marker with each of the length fields, followed by a few bytes
Streams == FrameStreams \o [k \in 1..Len(LenFields) |-> MarkerWithLen(LenFields[k]) \o Noise(NoiseLen)]

NStreams == Len(Streams)

\* the tags of the valid target frames of each stream
Encoded(s) == IF s <= Len(FrameStreams)
              THEN <<{1, 2, 3}, {1, 2}, {2}, {2}, {}, {1}, {}, {1}, {4, 5, 6}, {7, 8}>>[s]
              ELSE {}
\* the streams that consist of valid frames only
ValidStreams == {1, 2, 8, 9, 10}
\* the streams whose first frame has one checksum byte changed
FlippedStreams == {3, 4}
\* the streams that start with a marker and a length field written by noise
BadLenStreams == {6} \cup (Len(FrameStreams) + 1 .. NStreams)

Remaining == Len(bus)

\* the read sizes the bus hands out: small trickles and some large reads
\* (also whatever is left of the stream, if it fits the read buffer)
ReadSizes ==
    {n \in (1..MaxTrickle) \cup {100, TEMP_BUF_SIZE} : n <= Remaining}
    \cup (IF Remaining \in 1..TEMP_BUF_SIZE THEN {Remaining} ELSE {})

\* ------------------------------------------------------------------------
\* State machine of the decoder
\* ------------------------------------------------------------------------
\* called: which path the last call took; before, appended, scanned: the
\* accumulator at entry, after the append, and when the loop was left; left:
\* the loop was left within the iterations that are run
NoScan == [called |-> "none", read_len |-> 0, copy_len |-> 0, before |-> <<>>,
           appended |-> <<>>, scanned |-> <<>>, left |-> TRUE, tr |-> NoTrace]

\* ------------------------------------------------------------------------
\* The bus calls zed_rover_available and zed_rover_read.  ok: the length
\* transaction returned ESP_OK; len_bytes: what it read from the registers
\* 0xFD and 0xFE; data_ok: the transaction on the data register returned
\* ESP_OK.  transfers: the lengths of the transactions on the data register.
\* ------------------------------------------------------------------------
\* variant of zed_rover_available: 0xFFFF is not set to 0
AvailableRaw(ok, len_bytes) ==
    IF ~ok THEN -1 ELSE len_bytes[1] * 256 + len_bytes[2]

zed_rover_available(ok, len_bytes) ==
    IF ~ok
    THEN -1
    ELSE LET available == len_bytes[1] * 256 + len_bytes[2]
         IN IF available = 65535 THEN 0 ELSE available

\* variant of zed_rover_read: a failed transfer is made once more
ReadRetrying(ok, len_bytes, max_len, data_ok) ==
    LET available == zed_rover_available(ok, len_bytes)
        to_read == IF available < max_len THEN available ELSE max_len
    IN IF available <= 0
       THEN [result |-> available, transfers |-> <<>>]
       ELSE IF data_ok
            THEN [result |-> to_read, transfers |-> <<to_read>>]
            ELSE [result |-> -1, transfers |-> <<to_read, to_read>>]

zed_rover_read(ok, len_bytes, max_len, data_ok) ==
    LET available == zed_rover_available(ok, len_bytes)
        to_read == IF available < max_len THEN available ELSE max_len
    IN IF available <= 0
       THEN [result |-> available, transfers |-> <<>>]
       ELSE [result |-> IF data_ok THEN to_read ELSE -1, transfers |-> <<to_read>>]

NoBus == [op |-> "none"]

\* the values of a length register and the buffer sizes the calls are made with
RegBytes == {0, 1, 2, 100, 254, 255}
MaxLens == {0, 1, TEMP_BUF_SIZE, 2 * TEMP_BUF_SIZE}

Available(ok, len_bytes) ==
    /\ zres' = [op |-> "available", ok |-> ok, len_bytes |-> len_bytes,
                result |-> zed_rover_available(ok, len_bytes)]
    /\ UNCHANGED <<ubx_buffer, stream, sent, bus, ret, pos, fixes, scan>>
    /\ UNCHANGED <<ntripVars, b64Vars, wifiVars>>

Read(ok, len_bytes, max_len, data_ok) ==
    /\ \E r \in {zed_rover_read(ok, len_bytes, max_len, data_ok)} :
          zres' = [op |-> "read", ok |-> ok, len_bytes |-> len_bytes, max_len |-> max_len,
                   data_ok |-> data_ok, result |-> r.result, transfers |-> r.transfers]
    /\ UNCHANGED <<ubx_buffer, stream, sent, bus, ret, pos, fixes, scan>>
    /\ UNCHANGED <<ntripVars, b64Vars, wifiVars>>

BusNext ==
    \/ \E ok \in BOOLEAN, hi \in RegBytes, lo \in RegBytes :
          Available(ok, <<hi, lo>>) /\ UNCHANGED roverVars
    \/ \E ok \in BOOLEAN, hi \in RegBytes, lo \in RegBytes, max_len \in MaxLens,
          data_ok \in BOOLEAN :
          Read(ok, <<hi, lo>>, max_len, data_ok) /\ UNCHANGED roverVars

\* the decoder after construction, in front of stream s (0: no stream)
DecStart(s) ==
    /\ ubx_buffer = <<>>
    /\ stream = s
    /\ sent = 0
    /\ bus = IF s = 0 THEN <<>> ELSE Streams[s]
    /\ ret = FALSE
    /\ pos = ZeroPos
    /\ fixes = <<>>
    /\ scan = NoScan
    /\ zres = NoBus

\* zed_rover_get_position when the bus delivers read_len > 0 bytes
GetPositionData(read_len) ==
    /\ \E r \in {GetPosition(ubx_buffer, SubSeq(bus, 1, read_len))} :
          /\ ubx_buffer' = r.buf
          /\ ret' = r.found
          /\ pos' = r.pos
          /\ fixes' = IF r.found THEN Append(fixes, r.pos) ELSE fixes
          /\ scan' = [called |-> "data", read_len |-> read_len,
                      copy_len |-> CopyLen(ubx_buffer, read_len),
                      before |-> ubx_buffer,
                      appended |-> Append256(ubx_buffer, SubSeq(bus, 1, read_len)),
                      scanned |-> r.scanned, left |-> r.left, tr |-> r.tr]
    /\ sent' = sent + read_len
    /\ bus' = SubSeq(bus, read_len + 1, Len(bus))
    /\ UNCHANGED <<stream, zres, ntripVars, b64Vars, wifiVars>>

\* zed_rover_get_position when available() <= 0 or the read fails:
\* memset(pos), return false, before the accumulator is touched
GetPositionNoData ==
    /\ ret' = FALSE
    /\ pos' = ZeroPos
    /\ scan' = [NoScan EXCEPT !.called = "nodata", !.before = ubx_buffer,
                              !.appended = ubx_buffer, !.scanned = ubx_buffer]
    /\ UNCHANGED <<ubx_buffer, stream, sent, bus, fixes, zres, ntripVars, b64Vars, wifiVars>>

DecNext ==
    \/ \E read_len \in ReadSizes : GetPositionData(read_len) /\ UNCHANGED roverVars
    \/ GetPositionNoData /\ UNCHANGED roverVars

\* ------------------------------------------------------------------------
\* The NTRIP client (src/src/ntrip_client.c)
\* ------------------------------------------------------------------------
ESP_OK == 0
ESP_FAIL == -1
NTRIP_STALE_TIMEOUT_MS == 15000
\* the clock is in ms and advances in steps of one timeout period
TickStep == NTRIP_STALE_TIMEOUT_MS
\* sizeof(auth_base64), the output_len of the only call of base64_encode
AUTH_BASE64_SIZE == 256

\* Bounds
MaxTime == 2        \* the clock runs from 0 to MaxTime * TickStep
MaxRecv == 2        \* max_len of receive: a recv delivers 1..MaxRecv bytes
MaxBytes == 2       \* receives are followed while the byte count stays <= MaxBytes
MaxRespLen == 4     \* longest handshake response chunk
MaxFds == 2         \* descriptors the socket layer can have open
MaxB64Len == 3      \* longest input of base64_encode drawn from B64Bytes

\* ---- base64_encode -----------------------------------------------------
base64_chars ==
    <<"A", "B", "C", "D", "E", "F", "G", "H", "I", "J", "K", "L", "M", "N", "O", "P",
      "Q", "R", "S", "T", "U", "V", "W", "X", "Y", "Z", "a", "b", "c", "d", "e", "f",
      "g", "h", "i", "j", "k", "l", "m", "n", "o", "p", "q", "r", "s", "t", "u", "v",
      "w", "x", "y", "z", "0", "1", "2", "3", "4", "5", "6", "7", "8", "9", "+", "/">>

\* base64_chars[v] of the C array (0-based)
B64Char(v) == base64_chars[v + 1]

\* the third and fourth output character of a group: '=' when i has run past
\* the input (i is the index after the three conditional reads)
B64Third(i, input_len, triple) ==
    IF i > input_len + 1 THEN "=" ELSE B64Char((triple \div 64) % 64)

B64Fourth(i, input_len, triple) ==
    IF i > input_len THEN "=" ELSE B64Char(triple % 64)

\* the while loop; i is advanced by a read only when i < input_len
RECURSIVE B64Loop(_, _, _, _)
B64Loop(input, output_len, i, out) ==
    LET input_len == Len(input)
        j == Len(out)
    IN IF ~(i < input_len /\ j < output_len - 4) THEN out
       ELSE LET octet_a == input[i + 1]
                i1 == i + 1
                octet_b == IF i1 < input_len THEN input[i1 + 1] ELSE 0
                i2 == IF i1 < input_len THEN i1 + 1 ELSE i1
                octet_c == IF i2 < input_len THEN input[i2 + 1] ELSE 0
                i3 == IF i2 < input_len THEN i2 + 1 ELSE i2
                triple == octet_a * 65536 + octet_b * 256 + octet_c
            IN B64Loop(input, output_len, i3,
                       out \o <<B64Char((triple \div 262144) % 64),
                                B64Char((triple \div 4096) % 64),
                                B64Third(i3, input_len, triple),
                                B64Fourth(i3, input_len, triple)>>)

\* the output string (without its terminator)
base64_encode(input, output_len) == B64Loop(input, output_len, 0, <<>>)

\* ---- the handshake response --------------------------------------------
\* The response is the chunk recv stored in response[0..len-1]; connect
\* terminates it at response[len] and searches it with strstr, which reads up
\* to the first terminator, one inside the chunk included.
NUL == "NUL"
RespChars == {"2", "0", "I", "C", "Y", NUL}

RECURSIVE SeqsUpTo(_, _)
SeqsUpTo(S, n) ==
    IF n = 0 THEN {<<>>}
    ELSE LET shorter == SeqsUpTo(S, n - 1)
         IN shorter \cup {Append(q, c) : q \in {t \in shorter : Len(t) = n - 1}, c \in S}

Responses == SeqsUpTo(RespChars, MaxRespLen)

\* the C string that starts at chunk[0]
CStr(chunk) ==
    IF \E k \in 1..Len(chunk) : chunk[k] = NUL
    THEN SubSeq(chunk, 1, (CHOOSE k \in 1..Len(chunk) :
                              chunk[k] = NUL /\ \A j \in 1..(k - 1) : chunk[j] # NUL) - 1)
    ELSE chunk

\* strstr(haystack, needle) != NULL
StrStr(haystack, needle) ==
    \E k \in 1..(Len(CStr(haystack)) - Len(needle) + 1) :
        SubSeq(CStr(haystack), k, k + Len(needle) - 1) = needle

\* variants of the acceptance test: any non-empty chunk; the "200" token alone
AcceptedAnyChunk(response) == Len(response) > 0
AcceptedOnly200(response) == StrStr(response, <<"2", "0", "0">>)

\* strstr(response, "200") != NULL || strstr(response, "ICY") != NULL
Accepted(response) ==
    StrStr(response, <<"2", "0", "0">>) \/ StrStr(response, <<"I", "C", "Y">>)

\* the characters of the blank line that ends the headers, and a correction byte
CR == "CR"
LF == "LF"
RTCM == "RTCM"

\* body_start = strstr(response, "\r\n\r\n"): the index of the first match in
\* the chunk (1-based), 0 for NULL
BodyStart(response) ==
    IF StrStr(response, <<CR, LF, CR, LF>>)
    THEN CHOOSE k \in 1..(Len(CStr(response)) - 3) :
            /\ SubSeq(CStr(response), k, k + 3) = <<CR, LF, CR, LF>>
            /\ \A j \in 1..(k - 1) : SubSeq(CStr(response), j, j + 3) # <<CR, LF, CR, LF>>
    ELSE 0

\* the bytes of the chunk after the blank line: correction bytes the recv of
\* connect took off the socket together with the headers
BodyLen(response) ==
    IF BodyStart(response) = 0 THEN 0 ELSE Len(response) - (BodyStart(response) + 3)

\* chunks in which the caster's answer ends with the blank line, alone or
\* followed by the first correction bytes
StreamChunks ==
    {<<"2", "0", "0", CR, LF, CR, LF>>,
     <<"2", "0", "0", CR, LF, CR, LF, RTCM>>,
     <<"I", "C", "Y", CR, LF, CR, LF, RTCM, RTCM>>,
     <<"0", "0", CR, LF, CR, LF, RTCM>>}

\* ---- state of the client -----------------------------------------------
SessionState ==
    IF s_connected THEN "Streaming"
    ELSE IF ntrip_pc = "handshake" THEN "Connecting"
    ELSE "Disconnected"

\* the client's variables as an operation finds them
Snapshot == [connected |-> s_connected, sock |-> s_sock, bytes |-> s_bytes_received,
             last |-> s_last_data_time, fds |-> open_fds]

\* op: the operation; result: its return value; how: the outcome of its
\* socket calls; response: the chunk read by connect; pre: the state it
\* found; at: the tick count when it returned
Result(op, result, how, response, pre) ==
    [op |-> op, result |-> result, how |-> how, response |-> response, pre |-> pre,
     at |-> now]

NtripStart ==
    /\ s_sock = -1
    /\ s_connected = FALSE
    /\ s_bytes_received = 0
    /\ sock_read = 0
    /\ s_last_data_time = 0
    /\ ntrip_pc = "idle"
    /\ open_fds = {}
    /\ now = 0
    /\ nres = Result("none", 0, "none", <<>>, [connected |-> FALSE, sock |-> -1,
                     bytes |-> 0, last |-> 0, fds |-> {}])

\* socket(): the lowest descriptor that is not open
NewFd == CHOOSE fd \in 0..MaxFds : fd \notin open_fds /\ \A g \in 0..(fd - 1) : g \in open_fds

\* variant of the close: the descriptor is forgotten, not closed
CloseSockLeak ==
    /\ open_fds' = open_fds
    /\ s_sock' = -1

\* close(s_sock); s_sock = -1;
CloseSock ==
    /\ open_fds' = open_fds \ {s_sock}
    /\ s_sock' = -1

\* variant of ntrip_client_connect without the test of s_connected
ConnectStartReopen(how) ==
    /\ ntrip_pc = "idle"
    /\ \/ /\ how = "dns"
          /\ nres' = Result("connect", ESP_FAIL, how, <<>>, Snapshot)
          /\ UNCHANGED <<s_sock, s_connected, s_bytes_received, sock_read, s_last_data_time,
                         ntrip_pc, open_fds>>
       \/ /\ how = "open"
          /\ Cardinality(open_fds) < MaxFds
          /\ s_sock' = NewFd
          /\ open_fds' = open_fds \cup {NewFd}
          /\ ntrip_pc' = "handshake"
          /\ nres' = Result("connecting", 0, how, <<>>, Snapshot)
          /\ UNCHANGED <<s_connected, s_bytes_received, sock_read, s_last_data_time>>
    /\ UNCHANGED <<now, decVars, b64Vars, wifiVars>>

\* ntrip_client_connect up to the end of the TCP connect.  how: "already"
\* (s_connected), "dns" (gethostbyname failed), "socket" (socket() failed),
\* "tcp" (connect() failed), "open" (TCP connected, the request goes out).
ConnectStart(how) ==
    /\ ntrip_pc = "idle"
    /\ IF s_connected
       THEN /\ how = "already"
            /\ nres' = Result("connect", ESP_OK, how, <<>>, Snapshot)
            /\ UNCHANGED <<s_sock, s_connected, s_bytes_received, sock_read, s_last_data_time,
                           ntrip_pc, open_fds>>
       ELSE \/ /\ how = "dns"
               /\ nres' = Result("connect", ESP_FAIL, how, <<>>, Snapshot)
               /\ UNCHANGED <<s_sock, s_connected, s_bytes_received, sock_read, s_last_data_time,
                              ntrip_pc, open_fds>>
            \/ /\ how = "socket"
               /\ s_sock' = -1
               /\ nres' = Result("connect", ESP_FAIL, how, <<>>, Snapshot)
               /\ UNCHANGED <<s_connected, s_bytes_received, sock_read, s_last_data_time,
                              ntrip_pc, open_fds>>
            \/ /\ how = "tcp"
               /\ Cardinality(open_fds) < MaxFds
               /\ s_sock' = -1
               /\ nres' = Result("connect", ESP_FAIL, how, <<>>, Snapshot)
               /\ UNCHANGED <<s_connected, s_bytes_received, sock_read, s_last_data_time,
                              ntrip_pc, open_fds>>
            \/ /\ how = "open"
               /\ Cardinality(open_fds) < MaxFds
               /\ s_sock' = NewFd
               /\ open_fds' = open_fds \cup {NewFd}
               /\ ntrip_pc' = "handshake"
               /\ nres' = Result("connecting", 0, how, <<>>, Snapshot)
               /\ UNCHANGED <<s_connected, s_bytes_received, sock_read, s_last_data_time>>
    /\ UNCHANGED <<now, decVars, b64Vars, wifiVars>>

\* ntrip_client_connect from the send of the request on.  how: "send" (send
\* failed), "recv" (recv returned < 0), "response" (recv returned the chunk;
\* an empty chunk is a recv of 0 bytes).
ConnectFinish(how, response) ==
    /\ ntrip_pc = "handshake"
    /\ ntrip_pc' = "idle"
    /\ IF how = "response" /\ Accepted(response)
       THEN /\ s_connected' = TRUE
            /\ s_last_data_time' = now
            /\ sock_read' = sock_read + BodyLen(response)
            /\ nres' = Result("connect", ESP_OK, how, response, nres.pre)
            /\ UNCHANGED <<s_sock, open_fds>>
       ELSE /\ CloseSock
            /\ nres' = Result("connect", ESP_FAIL, how, response, nres.pre)
            /\ UNCHANGED <<s_connected, s_last_data_time, sock_read>>
    /\ UNCHANGED <<s_bytes_received, now, decVars, b64Vars, wifiVars>>

\* ntrip_client_disconnect
Disconnect ==
    /\ ntrip_pc = "idle"
    /\ IF s_sock >= 0 THEN CloseSock ELSE UNCHANGED <<s_sock, open_fds>>
    /\ s_connected' = FALSE
    /\ nres' = Result("disconnect", 0, "none", <<>>, Snapshot)
    /\ UNCHANGED <<s_bytes_received, sock_read, s_last_data_time, ntrip_pc, now, decVars, b64Vars, wifiVars>>

\* variant of the counter update: = instead of +=
AddBytesAssign(count, received) == received

\* s_bytes_received += received  (uint32_t; the model stays far below 2^32)
AddBytes(count, received) == count + received

\* ntrip_client_receive.  how: "closed" (not connected, nothing is done),
\* "data" (recv returned received > 0), "eagain" (recv < 0 with EAGAIN or
\* EWOULDBLOCK), "error" (recv < 0 otherwise), "eof" (recv returned 0).
Receive(how, received) ==
    /\ ntrip_pc = "idle"
    /\ IF ~s_connected \/ s_sock < 0
       THEN /\ how = "closed"
            /\ nres' = Result("receive", -1, how, <<>>, Snapshot)
            /\ UNCHANGED <<s_sock, s_connected, s_bytes_received, sock_read, s_last_data_time, open_fds>>
       ELSE \/ /\ how = "data"
               /\ s_bytes_received + received <= MaxBytes
               /\ s_bytes_received' = AddBytes(s_bytes_received, received)
               /\ sock_read' = sock_read + received
               /\ s_last_data_time' = now
               /\ nres' = Result("receive", received, how, <<>>, Snapshot)
               /\ UNCHANGED <<s_sock, s_connected, open_fds>>
            \/ /\ how = "eagain"
               /\ nres' = Result("receive", 0, how, <<>>, Snapshot)
               /\ UNCHANGED <<s_sock, s_connected, s_bytes_received, sock_read, s_last_data_time,
                              open_fds>>
            \/ /\ how \in {"error", "eof"}
               /\ s_connected' = FALSE
               /\ CloseSock
               /\ nres' = Result("receive", -1, how, <<>>, Snapshot)
               /\ UNCHANGED <<s_bytes_received, sock_read, s_last_data_time>>
    /\ UNCHANGED <<ntrip_pc, now, decVars, b64Vars, wifiVars>>

\* variant of the stale test: >= instead of >
IsStaleInclusive ==
    IF ~s_connected THEN FALSE
    ELSE now - s_last_data_time >= NTRIP_STALE_TIMEOUT_MS

\* ntrip_client_is_stale
ntrip_client_is_stale ==
    IF ~s_connected THEN FALSE
    ELSE now - s_last_data_time > NTRIP_STALE_TIMEOUT_MS

\* ntrip_client_check_stale
CheckStale ==
    /\ ntrip_pc = "idle"
    /\ IF ntrip_client_is_stale
       THEN /\ IF s_sock >= 0 THEN CloseSock ELSE UNCHANGED <<s_sock, open_fds>>
            /\ s_connected' = FALSE
       ELSE UNCHANGED <<s_sock, s_connected, open_fds>>
    /\ nres' = Result("check_stale", 0, IF ntrip_client_is_stale THEN "stale" ELSE "fresh",
                      <<>>, Snapshot)
    /\ UNCHANGED <<s_bytes_received, sock_read, s_last_data_time, ntrip_pc, now, decVars, b64Vars, wifiVars>>

\* the tick interrupt
Tick ==
    /\ now < MaxTime * TickStep
    /\ now' = now + TickStep
    /\ UNCHANGED <<s_sock, s_connected, s_bytes_received, sock_read, s_last_data_time, ntrip_pc,
                   open_fds, nres, decVars, b64Vars, wifiVars>>

NtripNext ==
    \/ \E how \in {"already", "dns", "socket", "tcp", "open"} : ConnectStart(how) /\ UNCHANGED roverVars
    \/ \E how \in {"send", "recv"} : ConnectFinish(how, <<>>) /\ UNCHANGED roverVars
    \/ ntrip_pc = "handshake" /\ \E response \in Responses : ConnectFinish("response", response) /\ UNCHANGED roverVars
    \/ Disconnect /\ UNCHANGED roverVars
    \/ \E how \in {"closed", "eagain", "error", "eof"} : Receive(how, 0) /\ UNCHANGED roverVars
    \/ \E received \in 1..MaxRecv : Receive("data", received) /\ UNCHANGED roverVars
    \/ CheckStale /\ UNCHANGED roverVars
    \/ Tick /\ UNCHANGED roverVars

\* the client with a caster whose answer ends with the blank line, alone or
\* followed by the first correction bytes; the run is followed while at most
\* MaxBytes correction bytes have been taken off the socket
HandshakeNext ==
    \/ \E how \in {"already", "dns", "socket", "tcp", "open"} : ConnectStart(how) /\ UNCHANGED roverVars
    \/ \E how \in {"send", "recv"} : ConnectFinish(how, <<>>) /\ UNCHANGED roverVars
    \/ sock_read <= MaxBytes /\ \E response \in StreamChunks : ConnectFinish("response", response) /\ UNCHANGED roverVars
    \/ Disconnect /\ UNCHANGED roverVars
    \/ \E how \in {"closed", "eagain", "error", "eof"} : Receive(how, 0) /\ UNCHANGED roverVars
    \/ \E received \in 1..MaxRecv : Receive("data", received) /\ UNCHANGED roverVars
    \/ CheckStale /\ UNCHANGED roverVars
    \/ Tick /\ UNCHANGED roverVars

\* ---- base64_encode as a state machine ------------------------------------
B64Bytes == {1, 77, 97, 255}
Aladdin == <<65, 108, 97, 100, 100, 105, 110, 58, 111, 112, 101, 110, 32,
             115, 101, 115, 97, 109, 101>>
UserPass == <<117, 115, 101, 114, 58, 112, 97, 115, 115>>

B64Start ==
    /\ b64_input \in SeqsUpTo(B64Bytes, MaxB64Len) \cup {Aladdin, UserPass}
    /\ b64_output = <<"unset">>

Base64Encode ==
    /\ b64_output = <<"unset">>
    /\ b64_output' = base64_encode(b64_input, AUTH_BASE64_SIZE)
    /\ UNCHANGED <<b64_input, decVars, ntripVars, wifiVars>>

\* ------------------------------------------------------------------------
\* The Wi-Fi manager (wifi.c, src/unnamed/part_001 from line 267 on)
\* ------------------------------------------------------------------------
\* the ssid column of wifi_networks[]; C indices are 0-based
wifi_networks == <<"RudyTheCanadian", "Glasshouse2.4">>
NUM_NETWORKS == Len(wifi_networks)
\* int8_t best_rssi = -127;
BEST_RSSI_INIT == -127
WIFI_AUTH_WPA2_PSK == 3

\* Bounds
MaxAps == 3         \* longest scan result list given to find_best_network

\* the inner loop of find_best_network: the first j with strcmp(...) == 0
KnownIdx(ssid) ==
    IF \E j \in 0..(NUM_NETWORKS - 1) : wifi_networks[j + 1] = ssid
    THEN CHOOSE j \in 0..(NUM_NETWORKS - 1) :
            /\ wifi_networks[j + 1] = ssid
            /\ \A k \in 0..(j - 1) : wifi_networks[k + 1] # ssid
    ELSE -1

\* variant of the comparison: >= instead of > (a later equal result wins)
FindStepLastWins(st, rec, threshold) ==
    IF KnownIdx(rec.ssid) >= 0 /\ rec.rssi >= st.best_rssi /\ rec.rssi >= threshold
    THEN [best_idx |-> KnownIdx(rec.ssid), best_rssi |-> rec.rssi]
    ELSE st

\* one iteration of the outer loop
\* if (is_known && rssi > best_rssi && rssi >= WIFI_RSSI_THRESHOLD)
FindStep(st, rec, threshold) ==
    IF KnownIdx(rec.ssid) >= 0 /\ rec.rssi > st.best_rssi /\ rec.rssi >= threshold
    THEN [best_idx |-> KnownIdx(rec.ssid), best_rssi |-> rec.rssi]
    ELSE st

RECURSIVE FindLoop(_, _, _, _)
FindLoop(records, i, st, threshold) ==
    IF i > Len(records) THEN st
    ELSE FindLoop(records, i + 1, FindStep(st, records[i], threshold), threshold)

find_best_network(records, threshold) ==
    FindLoop(records, 1, [best_idx |-> -1, best_rssi |-> BEST_RSSI_INIT], threshold).best_idx

\* ---- find_best_network in front of every short scan list -------------------
SelSsids == {"RudyTheCanadian", "Glasshouse2.4", "Guest"}
SelRssi == {-128, -127, -71, -70, -45}
SelThresholds == {-127, -70}
SelRecords == [ssid : SelSsids, rssi : SelRssi, authmode : {WIFI_AUTH_WPA2_PSK}]

NoWres == [op |-> "none"]

\* the statics of wifi.c as initialised, nothing in range
WifiStatics ==
    /\ s_retry_num = 0
    /\ wifi_connected = FALSE
    /\ s_current_network_idx = -1
    /\ s_connected_ssid = ""
    /\ event_bits = {}
    /\ mgr_pc = "boot"
    /\ sta = "idle"
    /\ sta_config = [ssid |-> "", authmode |-> 0]
    /\ best_idx = -1
    /\ wres = NoWres

WifiIdle == WifiStatics /\ ap_records = <<>> /\ rssi_threshold = -70

SelStart ==
    /\ WifiStatics
    /\ ap_records \in SeqsUpTo(SelRecords, MaxAps)
    /\ rssi_threshold \in SelThresholds

FindBest ==
    /\ wres.op = "none"
    /\ best_idx' = find_best_network(ap_records, rssi_threshold)
    /\ wres' = [op |-> "find"]
    /\ UNCHANGED <<s_retry_num, wifi_connected, s_current_network_idx, s_connected_ssid,
                   event_bits, mgr_pc, sta, sta_config, ap_records, rssi_threshold>>
    /\ UNCHANGED <<decVars, ntripVars, b64Vars>>

\* ---- the manager task, the event handler and the radio driver --------------
\* config.h is not among the sources: the retry limit is a parameter
WIFI_MAXIMUM_RETRY == 2

WIFI_CONNECTED_BIT == "WIFI_CONNECTED_BIT"
WIFI_FAIL_BIT == "WIFI_FAIL_BIT"
WIFI_SCAN_DONE_BIT == "WIFI_SCAN_DONE_BIT"

Ap(ssid, rssi, authmode) == [ssid |-> ssid, rssi |-> rssi, authmode |-> authmode]

\* what can be in range of the radio, as scan result lists
Airs ==
    << <<>>,
       <<Ap("RudyTheCanadian", -45, WIFI_AUTH_WPA2_PSK), Ap("Glasshouse2.4", -60, WIFI_AUTH_WPA2_PSK)>>,
       <<Ap("Guest", -30, WIFI_AUTH_WPA2_PSK), Ap("Glasshouse2.4", -60, WIFI_AUTH_WPA2_PSK)>>,
       <<Ap("RudyTheCanadian", -45, 0), Ap("Glasshouse2.4", -60, WIFI_AUTH_WPA2_PSK)>>,
       <<Ap("RudyTheCanadian", -80, WIFI_AUTH_WPA2_PSK)>> >>

\* the task that assigns s_connected_ssid in a step of the Wi-Fi code: the
\* event task in the disconnect handler (line 341), the task that runs
\* wifi_scan_and_connect when a network is selected (line 483)
SsidWriter(op) ==
    IF op = "disconnected" THEN {"event task"}
    ELSE IF op = "records" /\ Len(ap_records) > 0
            /\ find_best_network(ap_records, rssi_threshold) >= 0 THEN {"wifi_mgr"}
    ELSE {}

\* the state a step of the Wi-Fi code found, kept with the step's name, and
\* the tasks that have assigned s_connected_ssid so far
WifiStep(op) ==
    [op |-> op, retry_before |-> s_retry_num, bits_before |-> event_bits,
     config_before |-> sta_config, sta_before |-> sta, connected_before |-> wifi_connected,
     idx_before |-> s_current_network_idx,
     ssid_writers |-> (IF wres.op \in {"none", "find"} THEN {} ELSE wres.ssid_writers)
                      \cup SsidWriter(op)]

WifiStart ==
    /\ WifiStatics
    /\ ap_records \in {Airs[k] : k \in 1..Len(Airs)}
    /\ rssi_threshold = -70

\* the networks in range change
Roam ==
    /\ \E k \in 1..Len(Airs) : ap_records' = Airs[k]
    /\ ap_records' # ap_records
    /\ wres' = WifiStep("roam")
    /\ UNCHANGED <<s_retry_num, wifi_connected, s_current_network_idx, s_connected_ssid,
                   event_bits, mgr_pc, sta, sta_config, rssi_threshold, best_idx>>
    /\ UNCHANGED <<decVars, ntripVars, b64Vars>>

\* event_handler, WIFI_EVENT_STA_START
EvStaStart ==
    /\ mgr_pc = "boot" /\ WIFI_SCAN_DONE_BIT \notin event_bits
    /\ event_bits' = event_bits \cup {WIFI_SCAN_DONE_BIT}
    /\ wres' = WifiStep("sta_start")
    /\ UNCHANGED <<s_retry_num, wifi_connected, s_current_network_idx, s_connected_ssid,
                   mgr_pc, sta, sta_config, ap_records, rssi_threshold, best_idx>>
    /\ UNCHANGED <<decVars, ntripVars, b64Vars>>

\* event_handler, WIFI_EVENT_SCAN_DONE
EvScanDone ==
    /\ mgr_pc = "scanning" /\ WIFI_SCAN_DONE_BIT \notin event_bits
    /\ event_bits' = event_bits \cup {WIFI_SCAN_DONE_BIT}
    /\ wres' = WifiStep("scan_done")
    /\ UNCHANGED <<s_retry_num, wifi_connected, s_current_network_idx, s_connected_ssid,
                   mgr_pc, sta, sta_config, ap_records, rssi_threshold, best_idx>>
    /\ UNCHANGED <<decVars, ntripVars, b64Vars>>

\* variant of the retry test: <= instead of <
RetryAllowedInclusive(retry_num) == retry_num <= WIFI_MAXIMUM_RETRY

\* if (s_retry_num < WIFI_MAXIMUM_RETRY)
RetryAllowed(retry_num) == retry_num < WIFI_MAXIMUM_RETRY

\* event_handler, WIFI_EVENT_STA_DISCONNECTED: the driver reports that an
\* attempt failed, that the link was lost, or that esp_wifi_disconnect() took
\* the link down ("dropping")
EvDisconnected ==
    /\ sta \in {"connecting", "associated", "dropping"}
    /\ wifi_connected' = FALSE
    /\ s_connected_ssid' = ""
    /\ IF RetryAllowed(s_retry_num)
       THEN /\ s_retry_num' = s_retry_num + 1
            /\ sta' = "connecting"             \* esp_wifi_connect()
            /\ UNCHANGED event_bits
       ELSE /\ s_retry_num' = 0
            /\ event_bits' = event_bits \cup {WIFI_FAIL_BIT}
            /\ sta' = "idle"
    /\ wres' = WifiStep("disconnected")
    /\ UNCHANGED <<s_current_network_idx, mgr_pc, sta_config, ap_records, rssi_threshold,
                   best_idx>>
    /\ UNCHANGED <<decVars, ntripVars, b64Vars>>

\* the driver associates only with a network in range that has the configured
\* ssid and at least the configured authmode (threshold.authmode)
CanAssociate ==
    \E i \in 1..Len(ap_records) :
        /\ ap_records[i].ssid = sta_config.ssid
        /\ ap_records[i].authmode >= sta_config.authmode

\* event_handler, IP_EVENT_STA_GOT_IP
EvGotIp ==
    /\ sta = "connecting" /\ CanAssociate
    /\ sta' = "associated"
    /\ s_retry_num' = 0
    /\ wifi_connected' = TRUE
    /\ event_bits' = event_bits \cup {WIFI_CONNECTED_BIT}
    /\ wres' = WifiStep("got_ip")
    /\ UNCHANGED <<s_current_network_idx, s_connected_ssid, mgr_pc, sta_config, ap_records,
                   rssi_threshold, best_idx>>
    /\ UNCHANGED <<decVars, ntripVars, b64Vars>>

\* variant of the station configuration: no minimum authmode
StaConfigOpen(idx) == [ssid |-> wifi_networks[idx + 1], authmode |-> 0]

\* wifi_config of wifi_scan_and_connect: .threshold.authmode and .ssid
StaConfig(idx) == [ssid |-> wifi_networks[idx + 1], authmode |-> WIFI_AUTH_WPA2_PSK]

\* wifi_scan_and_connect up to esp_wifi_scan_start.  esp_wifi_disconnect()
\* takes down a link or an attempt, which the driver reports with a
\* disconnect event; ok: esp_wifi_scan_start returned ESP_OK
ScanBegin(ok) ==
    /\ mgr_pc \in {"boot", "cooldown", "periodic"}
    /\ sta' = IF sta = "idle" THEN "idle" ELSE "dropping"
    /\ event_bits' = event_bits \ {WIFI_SCAN_DONE_BIT}
    /\ mgr_pc' = IF ok THEN "scanning" ELSE "wait"
    /\ wres' = WifiStep("scan_begin")
    /\ UNCHANGED <<s_retry_num, wifi_connected, s_current_network_idx, s_connected_ssid,
                   sta_config, ap_records, rssi_threshold, best_idx>>
    /\ UNCHANGED <<decVars, ntripVars, b64Vars>>

\* wifi_scan_and_connect from the wait for the scan on.  outcome: "none"
\* (ap_count == 0), "nomem" (malloc failed), "records" (the list was read)
ScanFinish(outcome) ==
    /\ mgr_pc = "scanning"
    /\ mgr_pc' = "wait"
    /\ event_bits' = event_bits \ {WIFI_SCAN_DONE_BIT}
    /\ wres' = WifiStep(outcome)
    /\ IF outcome = "records"
       THEN /\ Len(ap_records) > 0
            /\ \E best \in {find_best_network(ap_records, rssi_threshold)} :
                  /\ best_idx' = best
                  /\ IF best < 0
                     THEN UNCHANGED <<s_current_network_idx, s_connected_ssid, sta_config, sta>>
                     ELSE /\ s_current_network_idx' = best
                          /\ s_connected_ssid' = wifi_networks[best + 1]
                          /\ sta_config' = StaConfig(best)
                          /\ sta' = "connecting"       \* esp_wifi_connect()
       ELSE UNCHANGED <<best_idx, s_current_network_idx, s_connected_ssid, sta_config, sta>>
    /\ UNCHANGED <<s_retry_num, wifi_connected, ap_records, rssi_threshold>>
    /\ UNCHANGED <<decVars, ntripVars, b64Vars>>

\* xEventGroupWaitBits(CONNECTED | FAIL, pdFALSE, pdFALSE, timeout) returns
\* without blocking when one of the two bits is set at the call
ReturnsAtOnce(bits) == bits \cap {WIFI_CONNECTED_BIT, WIFI_FAIL_BIT} # {}

\* one iteration of the loop of wifi_manager_task: xEventGroupWaitBits
\* returns at once while WIFI_CONNECTED_BIT or WIFI_FAIL_BIT is set, after
\* WIFI_SCAN_INTERVAL_MS otherwise.  With WIFI_CONNECTED_BIT set and
\* WIFI_FAIL_BIT clear neither branch is taken and the loop goes round
\* ("spin"); the step keeps whether the call blocked.
WaitBits ==
    /\ mgr_pc = "wait"
    /\ IF WIFI_FAIL_BIT \in event_bits
       THEN /\ event_bits' = event_bits \ {WIFI_FAIL_BIT}
            /\ mgr_pc' = "cooldown"
            /\ wres' = WifiStep("wait")
       ELSE IF ReturnsAtOnce(event_bits)
       THEN /\ wres' = WifiStep("spin")
            /\ UNCHANGED <<event_bits, mgr_pc>>
       ELSE /\ ~wifi_connected
            /\ mgr_pc' = "periodic"
            /\ wres' = WifiStep("wait")
            /\ UNCHANGED event_bits
    /\ UNCHANGED <<s_retry_num, wifi_connected, s_current_network_idx, s_connected_ssid,
                   sta, sta_config, ap_records, rssi_threshold, best_idx>>
    /\ UNCHANGED <<decVars, ntripVars, b64Vars>>

MgrStep ==
    \/ \E ok \in BOOLEAN : ScanBegin(ok)
    \/ \E outcome \in {"none", "nomem", "records"} : ScanFinish(outcome)
    \/ WaitBits

DriverEvent == EvDisconnected \/ EvGotIp \/ EvScanDone

WifiNext ==
    \/ MgrStep /\ UNCHANGED roverVars
    \/ DriverEvent /\ UNCHANGED roverVars
    \/ EvStaStart /\ UNCHANGED roverVars
    \/ Roam /\ UNCHANGED roverVars

\* ------------------------------------------------------------------------
\* The orchestrator (main.c in src/unnamed/part_001): app_main from the
\* return of wifi_init_sta on, and rover_task
\* ------------------------------------------------------------------------
\* NTRIP_RECONNECT_INTERVAL_MS and POSITION_REPORT_INTERVAL_MS are values of
\* config.h, which is not among the sources: parameters of the model, in
\* steps of the clock
NTRIP_RECONNECT_INTERVAL_MS == TickStep
POSITION_REPORT_INTERVAL_MS == 2 * TickStep
LED_INTERVAL_MS == 50
\* the clock of the orchestrator runs up to RvMaxTime steps
RvMaxTime == 2
\* the bus read of the orchestrator's position poll fills the read buffer
RvReadLen == TEMP_BUF_SIZE

\* uint32_t: the statistics are kept at their width, as two 16-bit halves
Half == 256 * 256
Count(hi, lo) == [hi |-> hi, lo |-> lo]
U32Zero == Count(0, 0)
U32Max == Count(Half - 1, Half - 1)
U32Less(a, b) == a.hi < b.hi \/ (a.hi = b.hi /\ a.lo < b.lo)

\* count += n and count++ on a uint32_t, for 0 <= n < 2^16: modulo 2^32
U32Add(count, n) ==
    Count((count.hi + (count.lo + n) \div Half) % Half, (count.lo + n) % Half)

\* ntrip_client_connect was not entered yet
NoConn == [at |-> -1, wifi |-> TRUE]

\* ntrip_client_connect is entered: the time, and what wifi_is_connected() is
StartOfConnect == [at |-> now, wifi |-> wifi_connected]

\* variant of the order of the loop: the position poll before the receive
AfterPollFirst(step) ==
    CASE step = "top" -> "connect"
      [] step = "connect" -> "poll"
      [] step = "poll" -> "receive"
      [] step = "receive" -> "led"
      [] step = "led" -> "delay"
      [] step = "delay" -> "top"

\* variant of the order of the loop: the task ends after its delay
AfterExit(step) ==
    CASE step = "top" -> "connect"
      [] step = "connect" -> "receive"
      [] step = "receive" -> "poll"
      [] step = "poll" -> "led"
      [] step = "led" -> "delay"
      [] step = "delay" -> "exit"

\* the block of the loop of rover_task that follows a block
After(step) ==
    CASE step = "top" -> "connect"
      [] step = "connect" -> "receive"
      [] step = "receive" -> "poll"
      [] step = "poll" -> "led"
      [] step = "led" -> "delay"
      [] step = "delay" -> "top"

RoverLocals ==
    /\ wifi_ok = FALSE /\ ntrip_ok = FALSE /\ rv_now = 0
    /\ last_ntrip_attempt = 0 /\ last_position_report = 0 /\ last_led_time = 0
    /\ last_carr_soln = 0
    /\ rtcm_bytes_received = U32Zero /\ rtcm_bytes_sent = U32Zero
    /\ position_count = U32Zero /\ fixed_count = U32Zero /\ float_count = U32Zero
    /\ led = "white" /\ tick_log = <<>> /\ conn = NoConn

\* the orchestrator does not run
RoverIdle == rv_pc = "off" /\ RoverLocals

\* app_main after wifi_init_sta, zed_rover_init and battery_init
RoverStart == rv_pc = "boot" /\ RoverLocals

\* time passes while the orchestrator waits: in wifi_init_sta, in the socket
\* calls of ntrip_client_connect
RvTick ==
    /\ rv_pc \in {"boot", "boot_hs", "connect_hs"}
    /\ now < RvMaxTime * TickStep
    /\ now' = now + TickStep
    /\ UNCHANGED <<s_sock, s_connected, s_bytes_received, sock_read, s_last_data_time, ntrip_pc,
                   open_fds, nres, decVars, b64Vars, wifiVars, roverVars>>

\* app_main: ntrip_client_connect(), whatever wifi_init_sta returned
BootConnectStart(how) ==
    /\ rv_pc = "boot"
    /\ ConnectStart(how)
    /\ conn' = StartOfConnect
    /\ rv_pc' = IF how = "open" THEN "boot_hs" ELSE "top"
    /\ UNCHANGED <<wifi_ok, ntrip_ok, rv_now, last_ntrip_attempt, last_position_report,
                   last_led_time, last_carr_soln, rtcm_bytes_received, rtcm_bytes_sent,
                   position_count, fixed_count, float_count, led, tick_log>>

\* app_main: the rest of ntrip_client_connect(), then xTaskCreate(rover_task)
BootConnectFinish(how, response) ==
    /\ rv_pc = "boot_hs"
    /\ ConnectFinish(how, response)
    /\ rv_pc' = "top"
    /\ UNCHANGED <<wifi_ok, ntrip_ok, rv_now, last_ntrip_attempt, last_position_report,
                   last_led_time, last_carr_soln, rtcm_bytes_received, rtcm_bytes_sent,
                   position_count, fixed_count, float_count, led, tick_log, conn>>

\* rover_task, top of the loop: wifi_ok, ntrip_client_check_stale(), ntrip_ok
StaleStep ==
    /\ rv_pc = "top"
    /\ CheckStale
    /\ wifi_ok' = wifi_connected
    /\ ntrip_ok' = s_connected'
    /\ tick_log' = <<"stale">>
    /\ rv_pc' = After("top")
    /\ UNCHANGED <<rv_now, last_ntrip_attempt, last_position_report,
                   last_led_time, last_carr_soln, rtcm_bytes_received, rtcm_bytes_sent,
                   position_count, fixed_count, float_count, led, conn>>

\* variant of the throttle: the interval is not looked at
ConnectDueAlways(t, last) == TRUE

\* (now - last_ntrip_attempt) >= ntrip_retry_interval
ConnectDue(t, last) == t - last >= NTRIP_RECONNECT_INTERVAL_MS

\* rover_task, "Maintain NTRIP connection": the block is skipped, or
\* ntrip_client_connect() is entered
ConnectStep(how) ==
    /\ rv_pc = "connect"
    /\ IF ~ntrip_ok /\ wifi_ok
       THEN IF ConnectDue(now, last_ntrip_attempt)
            THEN /\ ConnectStart(how)
                 /\ conn' = StartOfConnect
                 /\ tick_log' = Append(tick_log, "connect")
                 /\ IF how = "open"
                    THEN /\ rv_pc' = "connect_hs"
                         /\ rv_now' = now
                         /\ UNCHANGED <<ntrip_ok, last_ntrip_attempt>>
                    ELSE /\ rv_pc' = After("connect")
                         /\ ntrip_ok' = (nres'.result = ESP_OK)
                         /\ last_ntrip_attempt' = now
                         /\ UNCHANGED rv_now
            ELSE /\ how = "skip"
                 /\ rv_pc' = After("connect")
                 /\ UNCHANGED <<rv_now, ntrip_ok, last_ntrip_attempt, conn, tick_log>>
                 /\ UNCHANGED <<ntripVars, decVars, b64Vars, wifiVars>>
       ELSE /\ how = "skip"
            /\ rv_pc' = After("connect")
            /\ UNCHANGED <<rv_now, ntrip_ok, last_ntrip_attempt, conn, tick_log>>
            /\ UNCHANGED <<ntripVars, decVars, b64Vars, wifiVars>>
    /\ UNCHANGED <<wifi_ok, last_position_report, last_led_time, last_carr_soln,
                   rtcm_bytes_received, rtcm_bytes_sent, position_count, fixed_count,
                   float_count, led>>

\* rover_task: the rest of ntrip_client_connect(), last_ntrip_attempt = now;
\* the block is left and its local now is no more
ConnectDone(how, response) ==
    /\ rv_pc = "connect_hs"
    /\ ConnectFinish(how, response)
    /\ ntrip_ok' = (nres'.result = ESP_OK)
    /\ last_ntrip_attempt' = rv_now
    /\ rv_now' = 0
    /\ rv_pc' = After("connect")
    /\ UNCHANGED <<wifi_ok, last_position_report, last_led_time, last_carr_soln,
                   rtcm_bytes_received, rtcm_bytes_sent, position_count, fixed_count,
                   float_count, led, tick_log, conn>>

\* rover_task, "Receive RTCM from NTRIP and forward to ZED-X20P".  written:
\* zed_rover_write_rtcm wrote the bytes (it returns their number, or -1)
ReceiveStep(how, received, written) ==
    /\ rv_pc = "receive"
    /\ rv_pc' = After("receive")
    /\ IF ntrip_ok
       THEN /\ Receive(how, received)
            /\ IF nres'.result > 0
               THEN /\ rtcm_bytes_received' = U32Add(rtcm_bytes_received, nres'.result)
                    /\ rtcm_bytes_sent' = IF written
                                          THEN U32Add(rtcm_bytes_sent, nres'.result)
                                          ELSE rtcm_bytes_sent
                    /\ tick_log' = tick_log \o <<"receive", IF written THEN "forward"
                                                           ELSE "forward_failed">>
                    /\ UNCHANGED ntrip_ok
               ELSE /\ written = FALSE
                    /\ ntrip_ok' = (nres'.result = 0)
                    /\ tick_log' = Append(tick_log, "receive")
                    /\ UNCHANGED <<rtcm_bytes_received, rtcm_bytes_sent>>
       ELSE /\ how = "skip" /\ written = FALSE
            /\ UNCHANGED <<ntrip_ok, rtcm_bytes_received, rtcm_bytes_sent, tick_log>>
            /\ UNCHANGED <<ntripVars, decVars, b64Vars, wifiVars>>
    /\ UNCHANGED <<wifi_ok, rv_now, last_ntrip_attempt, last_position_report, last_led_time,
                   last_carr_soln, position_count, fixed_count, float_count, led, conn>>

\* (now - last_position_report) >= position_interval
ReportDue(t, last) == t - last >= POSITION_REPORT_INTERVAL_MS

\* rover_task, after zed_rover_get_position: the statistics and the report
AfterPoll ==
    /\ rv_pc' = After("poll")
    /\ IF ret'
       THEN /\ position_count' = U32Add(position_count, 1)
            /\ fixed_count' = IF pos'.carr_soln = 2 THEN U32Add(fixed_count, 1)
                              ELSE fixed_count
            /\ float_count' = IF pos'.carr_soln = 1 THEN U32Add(float_count, 1)
                              ELSE float_count
            /\ last_carr_soln' = pos'.carr_soln
            /\ IF ReportDue(now, last_position_report)
               THEN /\ last_position_report' = now
                    /\ tick_log' = tick_log \o <<"poll", "report">>
               ELSE /\ UNCHANGED last_position_report
                    /\ tick_log' = Append(tick_log, "poll")
       ELSE /\ tick_log' = Append(tick_log, "poll")
            /\ UNCHANGED <<position_count, fixed_count, float_count, last_carr_soln,
                           last_position_report>>
    /\ UNCHANGED <<wifi_ok, ntrip_ok, rv_now, last_ntrip_attempt, last_led_time,
                   rtcm_bytes_received, rtcm_bytes_sent, led, conn>>

\* rover_task, "Get position from ZED-X20P": the bus delivers bytes
PollData ==
    /\ rv_pc = "poll"
    /\ Len(bus) >= RvReadLen
    /\ GetPositionData(RvReadLen)
    /\ AfterPoll

\* rover_task, "Get position from ZED-X20P": nothing is read
PollNoData ==
    /\ rv_pc = "poll"
    /\ GetPositionNoData
    /\ AfterPoll

\* variant of the status class: the carrier solution is looked at first
LedClassFixFirst ==
    IF last_carr_soln = 2 THEN "green"
    ELSE IF last_carr_soln = 1 THEN "cyan pulse"
    ELSE IF ~wifi_ok THEN "blue pulse"
    ELSE IF ~ntrip_ok THEN "purple pulse"
    ELSE IF ntrip_client_is_stale THEN "red pulse"
    ELSE "yellow"

\* the colour and mode of "Update LED status"
LedClass ==
    IF ~wifi_ok THEN "blue pulse"
    ELSE IF ~ntrip_ok THEN "purple pulse"
    ELSE IF ntrip_client_is_stale THEN "red pulse"
    ELSE IF last_carr_soln = 2 THEN "green"
    ELSE IF last_carr_soln = 1 THEN "cyan pulse"
    ELSE "yellow"

\* rover_task, "Update LED status"
LedStep ==
    /\ rv_pc = "led"
    /\ rv_pc' = After("led")
    /\ IF now - last_led_time >= LED_INTERVAL_MS
       THEN /\ last_led_time' = now
            /\ led' = LedClass
            /\ tick_log' = Append(tick_log, "led")
       ELSE UNCHANGED <<last_led_time, led, tick_log>>
    /\ UNCHANGED <<wifi_ok, ntrip_ok, rv_now, last_ntrip_attempt, last_position_report,
                   last_carr_soln, rtcm_bytes_received, rtcm_bytes_sent, position_count,
                   fixed_count, float_count, conn>>
    /\ UNCHANGED <<ntripVars, decVars, b64Vars, wifiVars>>

\* rover_task, vTaskDelay: the loop starts over, at the same step of the
\* clock (elapsed = 0) or at the next
DelayStep(elapsed) ==
    /\ rv_pc = "delay"
    /\ rv_pc' = After("delay")
    /\ tick_log' = <<>>
    /\ now + elapsed <= RvMaxTime * TickStep
    /\ now' = now + elapsed
    /\ UNCHANGED <<wifi_ok, ntrip_ok, rv_now, last_ntrip_attempt, last_position_report,
                   last_led_time, last_carr_soln, rtcm_bytes_received, rtcm_bytes_sent,
                   position_count, fixed_count, float_count, led, conn>>
    /\ UNCHANGED <<s_sock, s_connected, s_bytes_received, sock_read, s_last_data_time, ntrip_pc,
                   open_fds, nres, decVars, b64Vars, wifiVars>>

\* the responses of the caster the orchestrator meets
RvResponses == {<<"I", "C", "Y">>, <<"2">>}

\* the steps of rover_task that need no bytes from the bus
RoverQuiet ==
    \/ StaleStep
    \/ \E how \in {"skip", "tcp", "open"} : ConnectStep(how)
    \/ \E response \in RvResponses : ConnectDone("response", response)
    \/ \E how \in {"eagain", "error"} : ReceiveStep(how, 0, FALSE)
    \/ ReceiveStep("skip", 0, FALSE)
    \/ \E written \in BOOLEAN : ReceiveStep("data", MaxRecv, written)
    \/ PollNoData
    \/ LedStep
    \/ \E elapsed \in {0, TickStep} : DelayStep(elapsed)

RoverTask == RoverQuiet \/ PollData

AppMain ==
    \/ \E how \in {"dns", "open"} : BootConnectStart(how)
    \/ \E response \in RvResponses : BootConnectFinish("response", response)

\* the orchestrator looks at the Wi-Fi state in these places only
ReadsWifi == rv_pc \in {"boot", "top", "connect"}

\* the event task while the orchestrator runs: the events of the attempt the
\* manager has started, and of the link.  An event that arrives elsewhere in
\* the loop is taken at the next place where the orchestrator looks.
RoverNext ==
    \/ AppMain
    \/ RoverTask
    \/ RvTick
    \/ ReadsWifi /\ EvGotIp /\ UNCHANGED roverVars
    \/ ReadsWifi /\ EvDisconnected /\ UNCHANGED roverVars

\* ------------------------------------------------------------------------
\* Specifications: each component in front of its environment, the others
\* at rest
\* ------------------------------------------------------------------------
B64Idle == b64_input = <<>> /\ b64_output = <<"unset">>

DecInit == (\E s \in 1..NStreams : DecStart(s)) /\ NtripStart /\ B64Idle /\ WifiIdle /\ RoverIdle
DecSpec == DecInit /\ [][DecNext]_vars

NtripInit == DecStart(0) /\ NtripStart /\ B64Idle /\ WifiIdle /\ RoverIdle
NtripSpec == NtripInit /\ [][NtripNext]_vars
HandshakeSpec == NtripInit /\ [][HandshakeNext]_vars

BusInit == DecStart(0) /\ NtripStart /\ B64Idle /\ WifiIdle /\ RoverIdle
BusSpec == BusInit /\ [][BusNext]_vars

B64Init == DecStart(0) /\ NtripStart /\ B64Start /\ WifiIdle /\ RoverIdle
B64Next == Base64Encode /\ UNCHANGED roverVars
B64Spec == B64Init /\ [][B64Next]_vars

SelInit == DecStart(0) /\ NtripStart /\ B64Idle /\ SelStart /\ RoverIdle
SelNext == FindBest /\ UNCHANGED roverVars
SelSpec == SelInit /\ [][SelNext]_vars

\* the Wi-Fi code when wifi_init_sta waits for the connection: the first scan
\* has selected profile 0 and the attempt is under way
WifiAttempting ==
    /\ s_retry_num = 0
    /\ wifi_connected = FALSE
    /\ s_current_network_idx = 0
    /\ s_connected_ssid = wifi_networks[1]
    /\ event_bits = {}
    /\ mgr_pc = "wait"
    /\ sta = "connecting"
    /\ sta_config = StaConfig(0)
    /\ ap_records = Airs[2]
    /\ rssi_threshold = -70
    /\ best_idx = 0
    /\ wres = [op |-> "records", retry_before |-> 0, bits_before |-> {},
               config_before |-> [ssid |-> "", authmode |-> 0], sta_before |-> "idle",
               connected_before |-> FALSE, idx_before |-> -1, ssid_writers |-> {"wifi_mgr"}]

\* the orchestrator with the client, the decoder in front of stream 1 and the
\* events of the Wi-Fi attempt
RoverInit == DecStart(1) /\ NtripStart /\ B64Idle /\ WifiAttempting /\ RoverStart
RoverSpec == RoverInit /\ [][RoverNext]_vars

\* the Wi-Fi code with the link to profile 0 up and the manager in its wait
WifiUp ==
    /\ s_retry_num = 0
    /\ wifi_connected = TRUE
    /\ s_current_network_idx = 0
    /\ s_connected_ssid = wifi_networks[1]
    /\ event_bits = {WIFI_CONNECTED_BIT}
    /\ mgr_pc = "wait"
    /\ sta = "associated"
    /\ sta_config = StaConfig(0)
    /\ ap_records = Airs[2]
    /\ rssi_threshold = -70
    /\ best_idx = 0
    /\ wres = [op |-> "got_ip", retry_before |-> 0, bits_before |-> {},
               config_before |-> StaConfig(0), sta_before |-> "connecting",
               connected_before |-> FALSE, idx_before |-> 0, ssid_writers |-> {"wifi_mgr"}]

\* the statistics after 2^32 + received correction bytes (2^32 - 1 in the
\* last run), of which written were passed to the receiver, and after fixes
\* fixes, of which fixed were carrier-fixed and none carrier-float
LongRuns ==
    {[received |-> U32Zero, written |-> U32Max, fixes |-> U32Zero, fixed |-> U32Zero],
     [received |-> U32Zero, written |-> Count(Half - 1, Half - MaxRecv), fixes |-> U32Max,
      fixed |-> U32Max],
     [received |-> U32Zero, written |-> U32Max, fixes |-> U32Max,
      fixed |-> Count(Half - 1, Half - 2)],
     [received |-> U32Max, written |-> Count(Half - 1, Half - 2), fixes |-> U32Zero,
      fixed |-> U32Zero]}

\* rover_task at the top of an iteration late in a long run: the session is
\* down, the byte count of the orchestrator has come round to 0 or is about
\* to (the client's own count is followed from 0)
RoverLongRun ==
    /\ rv_pc = "top"
    /\ wifi_ok = TRUE /\ ntrip_ok = FALSE /\ rv_now = 0
    /\ last_ntrip_attempt = 0 /\ last_position_report = 0 /\ last_led_time = 0
    /\ \E run \in LongRuns :
          /\ rtcm_bytes_received = run.received
          /\ rtcm_bytes_sent = run.written
          /\ position_count = run.fixes
          /\ fixed_count = run.fixed
          /\ float_count = U32Zero
          /\ last_carr_soln = IF run.fixes = U32Zero THEN 0 ELSE 2
    /\ led = "purple pulse" /\ tick_log = <<>> /\ conn = NoConn

LongRunInit == DecStart(1) /\ NtripStart /\ B64Idle /\ WifiUp /\ RoverLongRun
LongRunNext == RoverTask \/ RvTick
LongRunSpec == LongRunInit /\ [][LongRunNext]_vars

\* the manager task is scheduled whenever it can run, and the driver reports
\* the end of every attempt and of every link it took down
WifiInit == DecStart(0) /\ NtripStart /\ B64Idle /\ WifiStart /\ RoverIdle
\* a scan can be started and its list read whenever that is tried often enough
WifiSpec ==
    /\ WifiInit /\ [][WifiNext]_vars
    /\ WF_vars(MgrStep /\ UNCHANGED roverVars)
    /\ WF_vars(DriverEvent /\ UNCHANGED roverVars)
    /\ SF_vars(ScanBegin(TRUE) /\ UNCHANGED roverVars)
    /\ SF_vars(ScanFinish("records") /\ UNCHANGED roverVars)
\* ------------------------------------------------------------------------
\* Properties of the decoder
\* ------------------------------------------------------------------------
\* number of fixes returned so far that carry tag
Returned(tag) == Cardinality({k \in 1..Len(fixes) : fixes[k].sec = tag})

\* the loop of the last call was left within the iterations the model runs
ScanCompleted == scan.called = "data" => scan.left

\* a call resolved a frame if it returned a fix or consumed another frame
Resolved == ret \/ scan.tr.skipped > 0

\* C1: for a stream of valid frames, split over the calls at any byte
\* boundaries, every encoded target fix is returned exactly once.  Stated on
\* the states in which the whole stream has been delivered and a further call
\* found the bus empty: no later call changes the fixes returned.
C1_EveryFixExactlyOnce ==
    (stream \in ValidStreams /\ bus = <<>> /\ scan.called = "nodata")
        => \A tag \in Encoded(stream) : Returned(tag) = 1

\* C2: no read of the search loop is at an index >= ubx_buffer_len (header,
\* payload and checksum bytes alike), whatever length field follows a marker.
C2_ReadsInsideAccumulator == ~scan.tr.oob

C2_Witness ==
    /\ stream \in BadLenStreams
    /\ scan.tr.incompleteAt = 0
    /\ Len(scan.appended) >= 9
    /\ Rd(scan.appended, 4) + 256 * Rd(scan.appended, 5) > UBX_BUFFER_SIZE

\* C3: 0 <= ubx_buffer_len <= 256; an append copies min(read_len, free space)
\* bytes and drops the rest; after it the accumulator only shrinks: it stays
\* as appended, or is emptied, or (a frame resolved) is a tail of what it was.
IsTail(t, b) == Len(t) <= Len(b) /\ t = SubSeq(b, Len(b) - Len(t) + 1, Len(b))

C3_LengthWithinCapacity ==
    /\ ubx_buffer_len >= 0 /\ ubx_buffer_len <= UBX_BUFFER_SIZE
    /\ scan.called = "data" =>
        /\ scan.copy_len = (IF scan.read_len <= UBX_BUFFER_SIZE - Len(scan.before)
                            THEN scan.read_len ELSE UBX_BUFFER_SIZE - Len(scan.before))
        /\ Len(scan.appended) = Len(scan.before) + scan.copy_len
        /\ Len(scan.appended) <= UBX_BUFFER_SIZE
        /\ IF Resolved THEN IsTail(ubx_buffer, scan.appended) /\ ubx_buffer # scan.appended
           ELSE ubx_buffer = scan.appended \/ ubx_buffer = <<>>
    /\ scan.called = "nodata" => ubx_buffer = scan.before

C3_Witness ==
    /\ scan.called = "data"
    /\ scan.copy_len < scan.read_len
    /\ Len(scan.appended) = UBX_BUFFER_SIZE

C5_BadChecksumRejected ==
    stream \in FlippedStreams =>
        /\ \A k \in 1..Len(fixes) : fixes[k].sec # 1
        /\ scan.tr.bad > 0 =>
            IF Len(scan.appended) >= 2 * (NAV_PVT_LEN + 8)
            THEN ret /\ pos.sec = 2 /\ scan.tr.fixAt = NAV_PVT_LEN + 8
            ELSE ~ret /\ ubx_buffer = scan.appended

C5_Witness ==
    /\ stream \in FlippedStreams
    /\ scan.tr.bad > 0
    /\ ret /\ pos.sec = 2

\* C6: a call that resolves no frame and ends with more than 200 bytes leaves
\* the accumulator empty, and the accumulator is cleared only by a call that
\* resolved no frame.
Cleared == scan.called = "data" /\ ~ret /\ scan.scanned # <<>> /\ ubx_buffer = <<>>

C6_ClearedOnlyWithoutFrame ==
    /\ (scan.called = "data" /\ ~Resolved /\ Len(scan.scanned) > UBX_CLEAR_THRESHOLD)
            => ubx_buffer = <<>>
    /\ Cleared => scan.tr.skipped = 0

\* ------------------------------------------------------------------------
\* Properties of the NTRIP client
\* ------------------------------------------------------------------------
\* Base64 of RFC 4648, with padding
B64Quad(a, b, c) ==
    <<B64Char(a \div 4), B64Char((a % 4) * 16 + b \div 16),
      B64Char((b % 16) * 4 + c \div 64), B64Char(c % 64)>>

RECURSIVE StdBase64(_)
StdBase64(input) ==
    IF Len(input) = 0 THEN <<>>
    ELSE IF Len(input) = 1
    THEN SubSeq(B64Quad(input[1], 0, 0), 1, 2) \o <<"=", "=">>
    ELSE IF Len(input) = 2
    THEN SubSeq(B64Quad(input[1], input[2], 0), 1, 3) \o <<"=">>
    ELSE B64Quad(input[1], input[2], input[3]) \o StdBase64(SubSeq(input, 4, Len(input)))

\* C7: base64_encode yields the standard Base64 encoding of its input, with
\* one '=' when the length mod 3 is 2 and two when it is 1.
C7_StandardBase64 ==
    b64_output # <<"unset">> => b64_output = StdBase64(b64_input)

\* the response chunk contains "200" or "ICY"
HasToken(response) ==
    \E k \in 1..(Len(response) - 2) :
        SubSeq(response, k, k + 2) \in {<<"2", "0", "0">>, <<"I", "C", "Y">>}

\* C8: the session goes Disconnected -> Connecting -> Streaming ->
\* Disconnected (a connect attempt that fails falls back from Connecting to
\* Disconnected); Streaming is entered only from Connecting, by a connect
\* whose response was accepted; Streaming is left only to Disconnected, by a
\* receive error or close, a disconnect or a stale check.
C8_SessionTransitions ==
    [][ /\ <<SessionState, SessionState'>> \in
              {<<"Disconnected", "Disconnected">>, <<"Disconnected", "Connecting">>,
               <<"Connecting", "Connecting">>, <<"Connecting", "Streaming">>,
               <<"Connecting", "Disconnected">>, <<"Streaming", "Streaming">>,
               <<"Streaming", "Disconnected">>}
        /\ (SessionState # "Streaming" /\ SessionState' = "Streaming") =>
              /\ SessionState = "Connecting"
              /\ nres'.op = "connect" /\ nres'.result = ESP_OK
              /\ HasToken(CStr(nres'.response))
        /\ (SessionState = "Streaming" /\ SessionState' # "Streaming") =>
              \/ nres'.op = "receive" /\ nres'.how \in {"error", "eof"}
              \/ nres'.op = "disconnect"
              \/ nres'.op = "check_stale" /\ nres'.how = "stale"
      ]_vars

\* a session that streamed, was dropped, and streams again after a new connect
C8_Witness ==
    /\ SessionState = "Streaming"
    /\ nres.op = "connect" /\ nres.how = "response"
    /\ s_bytes_received > 0

\* C9 as claimed: a connect that attempts the handshake returns success, in
\* Streaming, exactly when a response chunk was read and contains "200" or
\* "ICY"; every other outcome returns failure with the socket closed, in
\* Disconnected.
C9_ConnectResultOverChunk ==
    (nres.op = "connect" /\ nres.how # "already") =>
        /\ nres.result \in {ESP_OK, ESP_FAIL}
        /\ nres.result = ESP_OK <=> (nres.how = "response" /\ HasToken(nres.response))
        /\ nres.result = ESP_OK =>
              SessionState = "Streaming" /\ s_sock >= 0 /\ s_sock \in open_fds
        /\ nres.result = ESP_FAIL =>
              SessionState = "Disconnected" /\ s_sock = -1 /\ open_fds = {}

\* C9 as amended: ... exactly when a response chunk was read and its part in
\* front of its first NUL byte (the whole chunk if it has none) contains "200"
\* or "ICY"; ...
C9_ConnectResult ==
    (nres.op = "connect" /\ nres.how # "already") =>
        /\ nres.result \in {ESP_OK, ESP_FAIL}
        /\ nres.result = ESP_OK <=>
              (nres.how = "response" /\ HasToken(CStr(nres.response)))
        /\ nres.result = ESP_OK =>
              SessionState = "Streaming" /\ s_sock >= 0 /\ s_sock \in open_fds
        /\ nres.result = ESP_FAIL =>
              SessionState = "Disconnected" /\ s_sock = -1 /\ open_fds = {}

\* a token behind a NUL byte is not seen; one in front of it is
C9_Witness ==
    /\ nres.op = "connect" /\ nres.result = ESP_OK
    /\ nres.response = <<"I", "C", "Y", NUL>>

\* C10: receive returns n > 0 on data, adding n to the byte count and setting
\* the last-activity time to now; 0 on a poll timeout, changing nothing; -1
\* with the socket closed, in Disconnected, on an error or a remote close; -1
\* changing nothing when the session is not Streaming.
ClientUnchanged ==
    /\ s_connected = nres.pre.connected /\ s_sock = nres.pre.sock
    /\ s_bytes_received = nres.pre.bytes /\ s_last_data_time = nres.pre.last
    /\ open_fds = nres.pre.fds

C10_ReceiveResult ==
    nres.op = "receive" =>
        /\ nres.how = "data" =>
              /\ nres.result > 0 /\ nres.pre.connected
              /\ s_bytes_received = nres.pre.bytes + nres.result
              /\ s_last_data_time = nres.at
              /\ SessionState = "Streaming" /\ s_sock = nres.pre.sock
        /\ nres.how = "eagain" => nres.result = 0 /\ nres.pre.connected /\ ClientUnchanged
        /\ nres.how \in {"error", "eof"} =>
              /\ nres.result = -1 /\ nres.pre.connected
              /\ SessionState = "Disconnected" /\ s_sock = -1
              /\ nres.pre.sock \notin open_fds
              /\ s_bytes_received = nres.pre.bytes /\ s_last_data_time = nres.pre.last
        /\ nres.how = "closed" => nres.result = -1 /\ ~nres.pre.connected /\ ClientUnchanged
        /\ nres.pre.connected = (nres.how # "closed")

C10_Witness ==
    /\ nres.op = "receive" /\ nres.how = "data"
    /\ nres.pre.bytes > 0
    /\ nres.at > nres.pre.last

\* C11: ntrip_client_is_stale() is true exactly when the session is Streaming
\* and more than 15 s have passed since the last activity, which is the
\* acceptance of the handshake or the last receive that returned data (no
\* other operation moves the timestamp); a check_stale that finds the session
\* stale closes the socket and leaves it Disconnected with no connect
\* under way, and one that does not changes nothing.
FifteenSeconds == 15000

C11_StaleCheck ==
    /\ ntrip_client_is_stale <=>
          (SessionState = "Streaming" /\ now - s_last_data_time > FifteenSeconds)
    /\ nres.op \in {"connect", "receive", "disconnect", "check_stale"} =>
          IF \/ nres.op = "connect" /\ nres.how = "response" /\ nres.result = ESP_OK
             \/ nres.op = "receive" /\ nres.how = "data"
          THEN s_last_data_time = nres.at
          ELSE s_last_data_time = nres.pre.last
    /\ nres.op = "check_stale" =>
          IF nres.pre.connected /\ nres.at - nres.pre.last > FifteenSeconds
          THEN /\ SessionState = "Disconnected" /\ ntrip_pc = "idle"
               /\ s_sock = -1 /\ nres.pre.sock \notin open_fds
               /\ s_bytes_received = nres.pre.bytes
          ELSE ClientUnchanged

\* a session that received data, then fell silent and was dropped by the check
C11_Witness ==
    /\ nres.op = "check_stale"
    /\ nres.pre.connected /\ ~s_connected
    /\ nres.pre.bytes > 0

\* ------------------------------------------------------------------------
\* Properties of the Wi-Fi manager
\* ------------------------------------------------------------------------
\* the scan results with a known identifier and RSSI >= threshold
Qualifying(records, threshold) ==
    {i \in 1..Len(records) :
        records[i].ssid \in {wifi_networks[j] : j \in 1..NUM_NETWORKS}
        /\ records[i].rssi >= threshold}

\* the first of the strongest results among the indices in Q
FirstStrongest(records, Q) ==
    CHOOSE i \in Q :
        /\ \A k \in Q : records[k].rssi <= records[i].rssi
        /\ \A k \in Q : k < i => records[k].rssi < records[i].rssi

\* what the selection must return for the candidates Q: the profile of the
\* first strongest candidate, none (-1) without a candidate
Selected(records, Q) ==
    IF Q = {} THEN best_idx = -1
    ELSE /\ best_idx \in 0..(NUM_NETWORKS - 1)
         /\ wifi_networks[best_idx + 1] = records[FirstStrongest(records, Q)].ssid

\* C12 as claimed: find_best_network returns a profile exactly when some scan
\* result has a known identifier and RSSI >= threshold, and then the profile
\* of the strongest such result, the first in scan order on ties.
C12_BestNetworkOfAllQualifying ==
    wres.op = "find" => Selected(ap_records, Qualifying(ap_records, rssi_threshold))

\* C12 as amended: ... the candidates are the scan results with a known
\* identifier, RSSI >= threshold and RSSI above -127 dBm.
C12_BestNetwork ==
    wres.op = "find" =>
        Selected(ap_records, {i \in Qualifying(ap_records, rssi_threshold) :
                                 ap_records[i].rssi > -127})

\* a tie between two known networks behind a stronger unknown one
C12_Witness ==
    /\ wres.op = "find"
    /\ Len(ap_records) = 3
    /\ ap_records[1].ssid = "Guest" /\ ap_records[1].rssi = -45
    /\ ap_records[2].ssid = "Glasshouse2.4" /\ ap_records[2].rssi = -70
    /\ ap_records[3].ssid = "RudyTheCanadian" /\ ap_records[3].rssi = -70
    /\ rssi_threshold = -70
    /\ best_idx = 1

\* C13: a disconnect event that finds fewer than WIFI_MAXIMUM_RETRY retries
\* made since the last connection counts one more and re-attempts the same
\* profile at once; the one that finds the limit reached issues no reconnect,
\* resets the counter and raises the failure signal, and a scan-and-select
\* cycle of the manager task follows; the counter stays in
\* 0..WIFI_MAXIMUM_RETRY and is reset by a connection.
C13_HandlerStep ==
    wres.op = "disconnected" =>
        IF wres.retry_before < WIFI_MAXIMUM_RETRY
        THEN /\ s_retry_num = wres.retry_before + 1
             /\ sta = "connecting" /\ sta_config = wres.config_before
             /\ event_bits = wres.bits_before
        ELSE /\ s_retry_num = 0
             /\ sta = "idle"
             /\ event_bits = wres.bits_before \cup {WIFI_FAIL_BIT}

C13_RetryThenRescan ==
    /\ [](s_retry_num \in 0..WIFI_MAXIMUM_RETRY)
    /\ []C13_HandlerStep
    /\ [](wres.op = "got_ip" => s_retry_num = 0)
    /\ (WIFI_FAIL_BIT \in event_bits) ~> (wres.op = "scan_begin")

\* a connection was established and lost, and the retries are used up
C13_Witness ==
    /\ wres.op = "disconnected"
    /\ wres.retry_before = WIFI_MAXIMUM_RETRY
    /\ WIFI_CONNECTED_BIT \in event_bits
    /\ WIFI_FAIL_BIT \in event_bits

\* C14: whenever the manager is not connected and no attempt is pending, the
\* background loop can run another scan-and-connect cycle: once it is in its
\* wait, the failure signal is set or the periodic timeout can expire.
C14_RescanWhileDown ==
    (~wifi_connected /\ sta = "idle" /\ mgr_pc = "wait") =>
        (WIFI_FAIL_BIT \in event_bits \/ WIFI_CONNECTED_BIT \notin event_bits)

\* C15: while wifi_is_connected() is false, wifi_get_ssid() returns "".
C15_SsidEmptyWhenDown == ~wifi_connected => s_connected_ssid = ""

\* another known profile than p is in range with RSSI >= threshold
OtherVisible(p) ==
    \E i \in 1..Len(ap_records) :
        /\ KnownIdx(ap_records[i].ssid) \notin {-1, p}
        /\ ap_records[i].rssi >= rssi_threshold

\* the manager loop can scan no more: it waits with WIFI_CONNECTED_BIT left
\* set and no failure signal, while nothing is connected or pending (C14)
LoopStopped ==
    /\ ~wifi_connected /\ sta = "idle" /\ mgr_pc = "wait"
    /\ WIFI_CONNECTED_BIT \in event_bits /\ WIFI_FAIL_BIT \notin event_bits

\* C16: when the retries of the selected profile p are used up while another
\* known profile is in range with RSSI >= threshold, a connection attempt to
\* another profile than p eventually follows, unless that other profile goes
\* out of range or the loop has stopped scanning before.
C16_FallsBackToOtherProfile ==
    \A p \in 0..(NUM_NETWORKS - 1) :
        []((/\ wres.op = "disconnected" /\ wres.retry_before = WIFI_MAXIMUM_RETRY
            /\ s_current_network_idx = p /\ OtherVisible(p))
           => <>(\/ sta = "connecting" /\ s_current_network_idx # p
                 \/ ~OtherVisible(p)
                 \/ LoopStopped))

\* the scan result the last scan cycle selected
SelectedRecord ==
    ap_records[FirstStrongest(ap_records,
                   {i \in Qualifying(ap_records, rssi_threshold) : ap_records[i].rssi > -127})]

\* C17 as claimed: a scan result with a known identifier and an
\* authentication method weaker than WPA2 is not selected for an attempt.
C17_WeakNeverSelected ==
    (wres.op = "records" /\ best_idx >= 0) =>
        SelectedRecord.authmode >= WIFI_AUTH_WPA2_PSK

\* C17 as amended: every attempt is made with WPA2 as the minimum
\* authentication method of the station configuration, so that the radio
\* associates with no network weaker than that; the selection does not look
\* at the authentication method.
C17_AttemptsRequireWpa2 ==
    /\ sta \in {"connecting", "associated"} => sta_config.authmode = WIFI_AUTH_WPA2_PSK
    /\ wres.op = "got_ip" =>
          \E i \in 1..Len(ap_records) :
              /\ ap_records[i].ssid = sta_config.ssid
              /\ ap_records[i].authmode >= WIFI_AUTH_WPA2_PSK

\* the strongest known network is open: it is selected and the attempt made
C17_Witness ==
    /\ wres.op = "records" /\ best_idx >= 0
    /\ SelectedRecord.authmode < WIFI_AUTH_WPA2_PSK
    /\ sta = "connecting" /\ sta_config = [ssid |-> SelectedRecord.ssid,
                                           authmode |-> WIFI_AUTH_WPA2_PSK]

\* the loop of rover_task is about to enter ntrip_client_connect
RoverAboutToConnect ==
    rv_pc = "connect" /\ ~ntrip_ok /\ wifi_ok /\ ConnectDue(now, last_ntrip_attempt)

\* C18: ntrip_client_connect is entered only if at least
\* NTRIP_RECONNECT_INTERVAL_MS has passed since it was entered the last time.
C18_ThrottledConnect ==
    RoverAboutToConnect => (conn.at = -1 \/ now - conn.at >= NTRIP_RECONNECT_INTERVAL_MS)

\* C19: whenever ntrip_client_connect was entered, wifi_is_connected() was
\* true at that time.
C19_ConnectOnlyWhileWifiUp == conn.wifi

\* the place of a step in the order stale check, connect, receive, forward,
\* position poll, report, status indicator
Rank(entry) ==
    CASE entry = "stale" -> 1
      [] entry = "connect" -> 2
      [] entry = "receive" -> 3
      [] entry \in {"forward", "forward_failed"} -> 4
      [] entry = "poll" -> 5
      [] entry = "report" -> 6
      [] entry = "led" -> 7

Logged(entry) == \E i \in 1..Len(tick_log) : tick_log[i] = entry

\* C20: the steps of every iteration of the loop run in the order stale
\* check, connect, receive and forward, position poll, report, status
\* indicator; every iteration starts with the stale check and polls the
\* position; bytes received in an iteration are given to
\* zed_rover_write_rtcm before the position poll of that iteration.
C20_TickOrder ==
    /\ \A i, j \in 1..Len(tick_log) : i < j => Rank(tick_log[i]) < Rank(tick_log[j])
    /\ rv_pc \in {"connect", "connect_hs", "receive", "poll", "led", "delay"} =>
          Len(tick_log) > 0 /\ tick_log[1] = "stale"
    /\ rv_pc \in {"led", "delay"} => Logged("poll")
    /\ rv_pc \in {"receive", "connect_hs"} => ~Logged("receive") /\ ~Logged("poll")
    /\ (rv_pc \in {"poll", "led", "delay"} /\ nres.op = "receive" /\ nres.result > 0) =>
          /\ Logged("receive")
          /\ Logged("forward") \/ Logged("forward_failed")
          /\ Logged("forward") => ~U32Less(rtcm_bytes_sent, Count(0, nres.result))
    /\ rv_pc = "poll" => ~Logged("poll")

\* an iteration that ran every step
C20_Witness ==
    /\ rv_pc = "delay"
    /\ tick_log = <<"stale", "connect", "receive", "forward", "poll", "report", "led">>

\* rover_task is in its loop
InLoop == rv_pc \in {"top", "connect", "connect_hs", "receive", "poll", "led", "delay"}

\* the block that follows, the handshake of the connect block counted in
NextBlock(pc) ==
    CASE pc = "connect" -> {"connect_hs", "receive"}
      [] pc = "connect_hs" -> {"receive"}
      [] pc \in {"top", "receive", "poll", "led", "delay"} -> {After(pc)}
      [] OTHER -> {}

\* C21: the loop of rover_task never exits: in every block of an iteration
\* the task can go on (also when the bus has no bytes), and whatever the
\* calls of the block return, it goes on into the next block, from the delay
\* into the next iteration.
C21_LoopNeverExits ==
    /\ [](InLoop => ENABLED RoverQuiet)
    /\ [][InLoop => (InLoop' /\ (rv_pc' # rv_pc => rv_pc' \in NextBlock(rv_pc)))]_vars
    /\ [][RoverTask => rv_pc' # rv_pc]_vars

\* a next iteration begins after one in which the receive failed, after a
\* bus write that failed and a connect that was made in the loop
C21_Witness ==
    /\ rv_pc = "top"
    /\ nres.op = "receive" /\ nres.result < 0
    /\ U32Less(rtcm_bytes_sent, rtcm_bytes_received)
    /\ conn.at > 0

\* C22: each statistics counter (bytes received, bytes forwarded, fixes
\* decoded, fixed count, float count) never decreases from one state to the
\* next.
C22_CountersNeverDecrease ==
    [][/\ ~U32Less(rtcm_bytes_received', rtcm_bytes_received)
       /\ ~U32Less(rtcm_bytes_sent', rtcm_bytes_sent)
       /\ ~U32Less(position_count', position_count)
       /\ ~U32Less(fixed_count', fixed_count)
       /\ ~U32Less(float_count', float_count)]_vars

\* the status-indicator calls of the iteration
LedCalls == Len(SelectSeq(tick_log, LAMBDA step : step = "led"))

C24_ReportWhenDue ==
    rv_pc \in {"led", "delay"} =>
        \/ Logged("report")
        \/ ~ReportDue(now, last_position_report)

\* C25: zed_rover_available returns -1 when the bus transaction fails, 0
\* when the two length registers read 0xFFFF, and otherwise the big-endian
\* 16-bit value of the two registers: a result in {-1} \cup 0..65534.
C25_AvailableResult ==
    zres.op = "available" =>
        /\ zres.result \in {-1} \cup 0..65534
        /\ ~zres.ok => zres.result = -1
        /\ zres.ok /\ zres.len_bytes = <<255, 255>> => zres.result = 0
        /\ zres.ok /\ zres.len_bytes # <<255, 255>> =>
              /\ zres.result \div 256 = zres.len_bytes[1]
              /\ zres.result % 256 = zres.len_bytes[2]

\* the registers read 0xFFFF
C25_Witness ==
    zres.op = "available" /\ zres.ok /\ zres.len_bytes = <<255, 255>> /\ zres.result = 0

\* what the length query of a read has returned
AvailableOf(call) ==
    IF ~call.ok THEN -1
    ELSE IF call.len_bytes = <<255, 255>> THEN 0
    ELSE 256 * call.len_bytes[1] + call.len_bytes[2]

\* C26: zed_rover_read returns what available() returned, with no
\* transfer, when that is <= 0; otherwise it makes one transfer of
\* min(available, max_len) bytes and returns that count, or -1 when the
\* transfer fails; it makes no second transfer.
C26_ReadResult ==
    zres.op = "read" =>
        IF AvailableOf(zres) <= 0
        THEN zres.result = AvailableOf(zres) /\ zres.transfers = <<>>
        ELSE /\ Len(zres.transfers) = 1
             /\ zres.transfers[1] <= AvailableOf(zres) /\ zres.transfers[1] <= zres.max_len
             /\ zres.transfers[1] \in {AvailableOf(zres), zres.max_len}
             /\ zres.result = IF zres.data_ok THEN zres.transfers[1] ELSE -1

\* a transfer cut to the size of the buffer fails
C26_Witness ==
    /\ zres.op = "read" /\ AvailableOf(zres) > zres.max_len /\ zres.max_len > 0
    /\ ~zres.data_ok /\ zres.result = -1 /\ zres.transfers = <<zres.max_len>>

\* the frame of the fix the last call returned, cut out of the accumulator
\* as it was after the append: the call removed it and all before it
ReturnedFrame ==
    SubSeq(scan.appended, Len(scan.appended) - Len(scan.scanned) - (NAV_PVT_LEN + 8) + 1,
           Len(scan.appended) - Len(scan.scanned))

\* C27: a fix returned has valid = true if and only if bit 0 of the
\* validity-flags byte (payload offset 11) is set and the fix quality (payload
\* offset 20) is >= 2; the structure of a call that returned false has
\* valid = false.  Of the fixes the streams carry, those with the tags 1, 2,
\* 3, 6, 7 and 8 have the bit set and a quality >= 2, those with 4 and 5 do not.
C27_ValidFlag ==
    /\ (scan.called = "data" /\ ret) =>
          (pos.valid <=> (ReturnedFrame[6 + 11 + 1] % 2 = 1 /\ ReturnedFrame[6 + 20 + 1] >= 2))
    /\ ~ret => ~pos.valid
    /\ \A k \in 1..Len(fixes) : fixes[k].valid <=> fixes[k].sec \in {1, 2, 3, 6, 7, 8}

\* a fix is returned whose validity bit is set and whose quality is below 2
C27_Witness ==
    /\ scan.called = "data" /\ ret /\ ~pos.valid
    /\ ReturnedFrame[6 + 11 + 1] = 1 /\ ReturnedFrame[6 + 20 + 1] = 1

\* C28: a variable shared between tasks has a single writer: the
\* current-identifier string s_connected_ssid is assigned by one task only.
C28_SingleWriter ==
    wres.op \notin {"none", "find"} => Cardinality(wres.ssid_writers) <= 1

\* C29: while the connection is established and no failure is signalled,
\* every iteration of the manager's loop blocks in the event wait: no
\* iteration is made in which the wait returned at once and no branch ran.
C29_ManagerSleepsWhileConnected ==
    ~(/\ wres.op = "spin"
      /\ wres.connected_before
      /\ WIFI_FAIL_BIT \notin wres.bits_before
      /\ ReturnsAtOnce(wres.bits_before))

\* a complete frame with a good checksum that is not the target message
\* starts at index i of buf
OtherFrameAt(buf, i) ==
    /\ i + 8 <= Len(buf)
    /\ Rd(buf, i) = UBX_SYNC1 /\ Rd(buf, i + 1) = UBX_SYNC2
    /\ LET payload_len == Rd(buf, i + 4) + 256 * Rd(buf, i + 5)
       IN /\ i + 8 + payload_len <= Len(buf)
          /\ ubx_checksum(buf, i + 2, 4 + payload_len)
                = <<Rd(buf, i + 6 + payload_len), Rd(buf, i + 7 + payload_len)>>
          /\ ~IsNavPvt(Rd(buf, i + 2), Rd(buf, i + 3), payload_len)

\* C30: a complete frame with a good checksum that is not the target
\* message, of any payload length from 0 upward, is removed by the call in
\* which it is complete: a call that read bytes, returned no fix and did not
\* stop at an incomplete frame leaves no such frame in the accumulator.
C30_OtherFramesRemoved ==
    (scan.called = "data" /\ ~ret /\ scan.tr.incompleteAt = -1) =>
        \A i \in 0..(Len(scan.scanned) - 8) : ~OtherFrameAt(scan.scanned, i)

\* C31: a sync marker followed by a malformed or oversized length field
\* costs the offending bytes only: when the whole stream has been read, the
\* complete valid target frame that follows such bytes has been returned.
C31_FixAfterBadLengthReturned ==
    (stream \in BadLenStreams /\ bus = <<>>) =>
        \A tag \in Encoded(stream) : Returned(tag) = 1

\* a complete target frame with a good checksum starts at index i of buf
TargetFrameAt(buf, i) ==
    /\ i + NAV_PVT_LEN + 8 <= Len(buf)
    /\ Rd(buf, i) = UBX_SYNC1 /\ Rd(buf, i + 1) = UBX_SYNC2
    /\ IsNavPvt(Rd(buf, i + 2), Rd(buf, i + 3), Rd(buf, i + 4) + 256 * Rd(buf, i + 5))
    /\ ubx_checksum(buf, i + 2, 4 + NAV_PVT_LEN)
          = <<Rd(buf, i + 6 + NAV_PVT_LEN), Rd(buf, i + 7 + NAV_PVT_LEN)>>

\* C32: the call after one that returned a fix scans the accumulator from
\* its head: a complete valid target frame that is at the head of the
\* accumulator is returned by the call, also when the bus supplies no byte.
C32_FrameAtHeadReturned ==
    (scan.called \in {"data", "nodata"} /\ TargetFrameAt(scan.before, 0)) =>
        ret /\ pos = Decode(scan.before, 0)

\* C33: the orchestrator retains the latest fix: after an iteration in
\* which no fix was decoded, the structure pos of rover_task still holds the
\* fix decoded last.
C33_LatestFixRetained ==
    (rv_pc \in {"led", "delay"} /\ ~ret /\ fixes # <<>>) => pos = fixes[Len(fixes)]

\* fixed_count + float_count as a pair <<multiples of 2^16, rest>>
SolutionCount ==
    <<fixed_count.hi + float_count.hi + (fixed_count.lo + float_count.lo) \div Half,
      (fixed_count.lo + float_count.lo) % Half>>

\* C34: the fixes-decoded counter is advanced by 1 for every fix and the
\* fixed and float counters by 1 for a fix of their kind only, hence
\* fixed_count + float_count <= position_count in every reachable state.
C34_SolutionCountsWithinFixes ==
    \/ SolutionCount[1] < position_count.hi
    \/ SolutionCount[1] = position_count.hi /\ SolutionCount[2] <= position_count.lo

\* C35: no correction byte is lost at the handshake: when an
\* ntrip_client_receive call finds the socket drained (it returns 0), every
\* correction byte a recv of the client has taken off the socket, the bytes
\* that came in the read of the accepted response after the blank line
\* included, has been returned by an ntrip_client_receive call.
C35_NoStreamByteLost ==
    (nres.op = "receive" /\ nres.how = "eagain") => sock_read = s_bytes_received

\* the payload byte at an offset of the frame a call returned
P(offset) == ReturnedFrame[6 + offset + 1]

\* the 16-bit little-endian value at a payload offset, and the two's
\* complement value of the 32-bit little-endian integer at an offset
LE16(offset) == P(offset) + 256 * P(offset + 1)
Signed32(offset) ==
    LE16(offset) + Half * (IF LE16(offset + 2) >= Half \div 2 THEN LE16(offset + 2) - Half
                           ELSE LE16(offset + 2))

\* C36: the fix decoded from a 92-byte target payload has year = the
\* little-endian u16 at offsets 4-5, month, day, hour, min, sec = the bytes
\* 6..10, fix quality = byte 20, carrier solution = bits 6-7 of byte 21,
\* satellite count = byte 23, longitude, latitude and altitude = the
\* little-endian signed 32-bit integers at 24, 28 and 36 (in 1e-7 degrees and
\* mm; negative when the top bit is set; the latitude bytes of 456471947 give
\* 45.6471947 degrees), accuracies = the unsigned 32-bit integers at 40 and 44
\* (in mm, as <<low half, high half>>).
C36_FieldsOfPayload ==
    /\ (scan.called = "data" /\ ret) =>
          /\ pos.year = LE16(4)
          /\ <<pos.month, pos.day, pos.hour, pos.min, pos.sec>> = <<P(6), P(7), P(8), P(9), P(10)>>
          /\ pos.fix_type = P(20)
          /\ pos.carr_soln = P(21) \div 64
          /\ pos.num_sv = P(23)
          /\ <<pos.lon_raw, pos.lat_raw, pos.alt_raw>> = <<Signed32(24), Signed32(28), Signed32(36)>>
          /\ pos.h_acc_raw = <<LE16(40), LE16(42)>>
          /\ pos.v_acc_raw = <<LE16(44), LE16(46)>>
          /\ (P(27) >= 128 => pos.lon_raw < 0) /\ (P(31) >= 128 => pos.lat_raw < 0)
          /\ (P(39) >= 128 => pos.alt_raw < 0)
    /\ \A k \in 1..Len(fixes) :
          /\ fixes[k].sec = 7 =>
                /\ fixes[k].lat_raw = 456471947 /\ fixes[k].lon_raw = -1224000000
                /\ fixes[k].alt_raw = -12345 /\ fixes[k].year = 2026
                /\ fixes[k].h_acc_raw = <<1, 32768>> /\ fixes[k].v_acc_raw = <<14, 0>>
                /\ fixes[k].carr_soln = 2 /\ fixes[k].num_sv = 31
          /\ fixes[k].sec = 8 =>
                /\ fixes[k].lat_raw = -1 /\ fixes[k].lon_raw = -1 /\ fixes[k].alt_raw = -1
                /\ fixes[k].year = 65535 /\ fixes[k].carr_soln = 3
                /\ fixes[k].h_acc_raw = <<65535, 65535>>

\* the fix of latitude 45.6471947 degrees and longitude -122.4 degrees is
\* returned, and after it the fix whose fields are all ones
C36_Witness ==
    /\ scan.called = "data" /\ ret /\ pos.sec = 8 /\ pos.lon_raw = -1
    /\ Len(fixes) = 2 /\ fixes[1].lat_raw = 456471947 /\ fixes[1].lon_raw < 0

\* C37: at every return from a client operation (connect, receive,
\* disconnect, check_stale) the socket is open if and only if the session is
\* Streaming: a Disconnected client holds no descriptor and none is left open
\* in the socket layer, a Streaming client holds the one open descriptor.
C37_SocketOpenIffStreaming ==
    (ntrip_pc = "idle" /\ nres.op \in {"connect", "receive", "disconnect", "check_stale"}) =>
        /\ s_connected <=> s_sock >= 0
        /\ open_fds = IF s_connected THEN {s_sock} ELSE {}

\* a Streaming session has been dropped by a receive that failed or found
\* the connection closed: the descriptor it held is closed
C37_Witness ==
    /\ ntrip_pc = "idle" /\ nres.op = "receive" /\ nres.how \in {"error", "eof"}
    /\ nres.pre.connected /\ nres.pre.sock >= 0 /\ ~s_connected /\ open_fds = {}

\* C38: the bytes forwarded to the receiver never exceed the bytes received
\* from the session: no step of the loop takes the counters from
\* forwarded <= received to forwarded > received.
C38_ForwardedWithinReceived ==
    [][~U32Less(rtcm_bytes_received, rtcm_bytes_sent)
          => ~U32Less(rtcm_bytes_received', rtcm_bytes_sent')]_vars

\* the same of the states: forwarded <= received
C38_ForwardedNotAboveReceived == ~U32Less(rtcm_bytes_received, rtcm_bytes_sent)

\* C39: whenever wifi_is_connected() is true, wifi_get_ssid() returns the
\* identifier of the profile chosen by the latest selection, the one the
\* station is configured for and connected to, also after a connection the
\* handler re-established by its own retry.
C39_SsidOfConnectedProfile ==
    wifi_connected =>
        /\ s_current_network_idx >= 0
        /\ s_connected_ssid = wifi_networks[s_current_network_idx + 1]
        /\ s_connected_ssid = sta_config.ssid

\* C40: ntrip_client_connect called while the session is Streaming returns
\* ESP_OK and changes nothing: no socket is opened, no handshake is started,
\* s_sock, s_connected, s_last_data_time and s_bytes_received are as the call
\* found them.
C40_ConnectWhileStreaming ==
    (nres.op \in {"connect", "connecting"} /\ nres.pre.connected) =>
        /\ nres.op = "connect" /\ nres.result = ESP_OK /\ nres.how = "already"
        /\ ntrip_pc = "idle"
        /\ Snapshot = nres.pre

\* connect was called in a Streaming session that had received bytes, later
\* than the session's last activity
C40_Witness ==
    /\ nres.op = "connect" /\ nres.how = "already" /\ nres.pre.connected
    /\ s_bytes_received > 0 /\ now > s_last_data_time /\ s_sock >= 0

====
